---- MODULE Spec2Model ----
(***************************************************************************)
(* Model of the debshrew block synchronizer (debshrew/src/synchronizer.rs) *)
(* together with the WASM runtime host (debshrew/src/runtime.rs), the      *)
(* rollback-window cache, an upstream metashrew chain and a CDC sink.      *)
(***************************************************************************)
EXTENDS Integers, Sequences, FiniteSets, TLC

\* ------------------------------------------------------------------ bounds
MaxHeight == 3      \* highest height the upstream chain grows to
MaxReorgs == 1      \* number of upstream reorganisations
MaxCacheSize == 3   \* largest cache_size handed to BlockSynchronizer::new
MaxClock == 1       \* number of wall-clock ticks
MaxAdapterHeight == 2   \* highest height a MemoryMetashrewAdapter is driven to
MaxAdapterOps == 3      \* number of calls made on the adapters
MaxGuestHeight == 2     \* highest height handed to a transform module
MaxGuestOps == 4        \* number of calls made on a transform module

\* --------------------------------------------------------------- constants
None == <<>>          \* Option::None
Some(x) == <<x>>      \* Option::Some
NoError == "none"     \* run() has not returned an error
EmptyHash == <<>>     \* Vec::new(), the runtime's hash before the first block
StartHeight == 0    \* BlockSynchronizer::new sets current_height to 0

VARIABLES
  chain,               \* upstream: hash served for height h is chain[h + 1]
  tip,                 \* upstream: height reported by get_height
  forks,               \* upstream: number of reorganisations so far
  now,                 \* wall clock (SystemTime::now)
  pc,                  \* position of run(): idle (not called yet), poll, fwd, disc,
                       \* probe, replay, returned (Ok), failed (Err)
  running,             \* BlockSynchronizer.running
  stop_signalled,      \* whether stop() has been called
  current_height,      \* BlockSynchronizer.current_height
  metashrew_height,    \* local of run(): result of get_height
  actual_block_count,  \* local of run(): result of get_actual_block_count
  target_height,       \* local of run(): bound of the forward loop
  height,              \* loop variable of the forward / replay loop
  new_height,          \* argument of handle_reorg (bound of its replay loop)
  probe_arm,           \* arm of the reorg probe taken in this iteration
  error,               \* the error run() returned, NoError while running
  cache_size,          \* BlockCache: the window W, fixed at construction
  cache,               \* BlockCache: sequence of cached blocks by height
  rt_height,           \* WasmRuntime.current_height
  rt_hash,             \* WasmRuntime.current_hash
  rt_state,            \* WasmRuntime.state
  cdc_cache,           \* WasmRuntime.cdc_cache: height -> messages
  sent,                \* batches the sink accepted, in order
  sink_calls,          \* the calls run() made on the sink, in order
  batch_in,            \* inversion check: the batch a block emitted
  inv_block,           \* inversion check: the height of that block
  batch_out,           \* inversion check: the inverse batch computed for it
  batch_back,          \* inversion check: the inverse of the inverse batch
  store_in,            \* inversion check: the downstream store before the batch
  store_now,           \* inversion check: the downstream store now
  guest_batch,         \* host interface: messages the transform's entry point produced
  emitted,             \* host interface: batches WasmRuntime::process_block returned
  view_result,         \* host interface: RuntimeState.view_result
  host_call,           \* host interface: the last host call of the guest, <<kind, argument>>
  host_ret,            \* host interface: the value the last host call returned
  guest_buf,           \* host interface: what the guest's wrapper of that call got
  guest_kv,            \* host interface: what the guest has set and not deleted
  runtime_lock,        \* lock check: holder of the Mutex around the WasmRuntime
  cache_lock,          \* lock check: holder of the Mutex around the BlockCache
  transform_result,    \* lock check: local of process_block, the transform's result
  cells,               \* adapter check: the AdapterState behind each Arc<Mutex<..>>
  handles,             \* adapter check: MemoryMetashrewAdapter values, name -> cell
  adapter_call,        \* adapter check: the last call, its arguments and its result
  adapter_ops,         \* adapter check: number of calls made so far
  instance,            \* transform module: static mut INSTANCE of declare_transform!
  processor,           \* transform module: the SimpleCdcProcessor of the reorg test
  guest_call,          \* transform module: the last call, its arguments and its result
  created,             \* transform module: height -> the Create last emitted for it
  guest_ops            \* transform module: number of calls made so far

upstream == <<chain, tip, forks>>
config == <<cache_size>>
locals == <<metashrew_height, actual_block_count, target_height, height, new_height,
            probe_arm>>
runtime == <<rt_height, rt_hash, rt_state, cdc_cache>>
control == <<running, stop_signalled>>
inversion == <<batch_in, inv_block, batch_out, batch_back, store_in, store_now>>
host == <<guest_batch, emitted, view_result, host_call, host_ret, guest_buf, guest_kv>>
locks == <<runtime_lock, cache_lock, transform_result>>
adapter == <<cells, handles, adapter_call, adapter_ops>>
guest == <<instance, processor, guest_call, created, guest_ops>>
side == <<locks, adapter, guest>>
checks == <<inversion, host, side>>
vars == <<chain, tip, forks, now, pc, current_height, metashrew_height,
          actual_block_count, target_height, height, new_height, probe_arm, error,
          cache_size, cache, rt_height, rt_hash, rt_state, cdc_cache, sent,
          running, stop_signalled, sink_calls, batch_in, inv_block, batch_out,
          batch_back, store_in, store_now, guest_batch, emitted, view_result, host_call,
          host_ret, guest_buf, guest_kv, runtime_lock, cache_lock, transform_result,
          cells, handles, adapter_call, adapter_ops, instance, processor, guest_call,
          created, guest_ops>>

\* ----------------------------------------------------------------- helpers
Min(a, b) == IF a <= b THEN a ELSE b

\* hex::encode of a hash: a string, not the bytes
HexEncode(bytes) == <<"hex", bytes>>

\* u32::to_string
HeightToString(n) == <<"dec", n>>

Reverse(s) == [i \in 1..Len(s) |-> s[Len(s) + 1 - i]]

RECURSIVE Flatten(_)
Flatten(ss) == IF ss = <<>> THEN <<>> ELSE Head(ss) \o Flatten(Tail(ss))

\* TransformState::new()
EmptyState == {}

\* Duration::as_millis and Duration::as_secs of the wall clock
AsMillis(t) == <<"ms", t>>
AsSecs(t) == <<"s", t>>

\* ------------------------------------------------------------ upstream (C1)
\* MetashrewClient::get_block_hash as served by the upstream
\* (found = FALSE is the "Block hash not found" error)
GetBlockHash(h) ==
  IF h + 1 <= Len(chain) THEN [found |-> TRUE, hash |-> chain[h + 1]]
  ELSE [found |-> FALSE, hash |-> EmptyHash]

\* ------------------------------------------------------ runtime (runtime.rs)
\* the CDC messages WasmRuntime::process_block builds for (height, hash)
BlockMessages(h, hash, t) ==
  << [ header |-> [ source |-> "block_transform", timestamp |-> AsMillis(t),
                    block_height |-> h, block_hash |-> HexEncode(hash),
                    transaction_id |-> None ],
       payload |-> [ operation |-> "Create", table |-> "blocks",
                     key |-> HeightToString(h), before |-> None,
                     after |-> Some([ height |-> h, hash |-> HexEncode(hash),
                                      timestamp |-> AsSecs(t) ]) ] ] >>

\* (variant: the inverse of a Create loses the image of the row)
InvertCdcMessageDropsImage(message, new_h, cur_hash, t) ==
  LET p == message.payload
      inv == CASE p.operation = "Create" -> <<"Delete", None, None>>
               [] p.operation = "Update" -> <<"Update", p.after, p.before>>
               [] p.operation = "Delete" -> <<"Create", None, p.before>>
  IN [ header |-> [ source |-> message.header.source, timestamp |-> AsMillis(t),
                    block_height |-> new_h, block_hash |-> HexEncode(cur_hash),
                    transaction_id |-> None ],
       payload |-> [ operation |-> inv[1], table |-> p.table, key |-> p.key,
                     before |-> inv[2], after |-> inv[3] ] ]

\* (variant: an Update keeps its before and after images)
InvertCdcMessageUnswapped(message, new_h, cur_hash, t) ==
  LET p == message.payload
      inv == CASE p.operation = "Create" -> <<"Delete", p.after, None>>
               [] p.operation = "Update" -> <<"Update", p.before, p.after>>
               [] p.operation = "Delete" -> <<"Create", None, p.before>>
  IN [ header |-> [ source |-> message.header.source, timestamp |-> AsMillis(t),
                    block_height |-> new_h, block_hash |-> HexEncode(cur_hash),
                    transaction_id |-> None ],
       payload |-> [ operation |-> inv[1], table |-> p.table, key |-> p.key,
                     before |-> inv[2], after |-> inv[3] ] ]

\* WasmRuntime::invert_cdc_message
InvertCdcMessage(message, new_h, cur_hash, t) ==
  LET p == message.payload
      inv == CASE p.operation = "Create" -> <<"Delete", p.after, None>>
               [] p.operation = "Update" -> <<"Update", p.after, p.before>>
               [] p.operation = "Delete" -> <<"Create", None, p.before>>
  IN [ header |-> [ source |-> message.header.source, timestamp |-> AsMillis(t),
                    block_height |-> new_h, block_hash |-> HexEncode(cur_hash),
                    transaction_id |-> None ],
       payload |-> [ operation |-> inv[1], table |-> p.table, key |-> p.key,
                     before |-> inv[2], after |-> inv[3] ] ]

\* the order in which compute_inverse_messages visits the messages of a block
InverseOrder(messages) == Reverse(messages)

\* (variant: the messages in reverse order, not inverted)
InverseOfMessagesReplayed(messages, h, cur_hash, t) == InverseOrder(messages)

\* WasmRuntime::compute_inverse_messages on the messages cached for a height
InverseOfMessages(messages, h, cur_hash, t) ==
  LET ms == InverseOrder(messages)
  IN [i \in 1..Len(ms) |-> InvertCdcMessage(ms[i], h - 1, cur_hash, t)]

\* WasmRuntime::compute_inverse_messages: "err" when nothing is cached for h
ComputeInverseMessages(cc, h, cur_hash, t) ==
  IF h \in DOMAIN cc
  THEN [ok |-> TRUE, messages |-> InverseOfMessages(cc[h], h, cur_hash, t)]
  ELSE [ok |-> FALSE, messages |-> <<>>]

\* --------------------------------------------------- rollback-window cache
CacheHeights(c) == {c[i].metadata.height : i \in 1..Len(c)}

\* BlockCache::get_block_at_height
GetBlockAtHeight(c, h) ==
  IF h \in CacheHeights(c)
  THEN (CHOOSE i \in 1..Len(c) : c[i].metadata.height = h)
  ELSE 0

\* the entries BlockCache::add_block keeps after an append (window eviction)
Evict(c, size) == IF Len(c) > size THEN SubSeq(c, Len(c) - size + 1, Len(c)) ELSE c

\* (variant: an append that accepts any height)
CanAppendAny(c, h) == TRUE

\* whether BlockCache::add_block accepts the height (first entry or tip + 1)
CanAppend(c, h) == c = <<>> \/ h = c[Len(c)].metadata.height + 1

\* BlockCache::add_block
AddBlock(c, size, metadata, messages, state) ==
  IF CanAppend(c, metadata.height)
  THEN [ok |-> TRUE,
        cache |-> Evict(Append(c, [metadata |-> metadata, cdc_messages |-> messages,
                                   state_snapshot |-> state]), size)]
  ELSE [ok |-> FALSE, cache |-> c]

\* BlockCache::find_common_ancestor: highest cached height whose hash equals
\* the candidate hash for that height; -1 when there is none
FindCommonAncestor(c, new_hashes) ==
  LET common == {h \in CacheHeights(c) \cap DOMAIN new_hashes :
                   c[GetBlockAtHeight(c, h)].metadata.hash = new_hashes[h]}
  IN IF common = {} THEN -1 ELSE CHOOSE h \in common : \A g \in common : g <= h

\* BlockCache::get_state_snapshot
GetStateSnapshot(c, h) == c[GetBlockAtHeight(c, h)].state_snapshot

\* (variant: a rollback that keeps every entry)
RollbackKeepsAll(c, target) == c

\* BlockCache::rollback: drop every entry above the target height
Rollback(c, target) == SelectSeq(c, LAMBDA e : e.metadata.height <= target)

\* ------------------------------------------- synchronizer (synchronizer.rs)
\* what one call of BlockSynchronizer::process_block(h) does to the runtime,
\* the cache and the sink; res is "ok", "notfound" (returns Ok without
\* processing) or "err"
ProcessBlock(h, netOk, wasmOk, sinkOk) ==
  LET got == GetBlockHash(h)
      hash == got.hash
      base == [res |-> "ok", error |-> NoError, cache |-> cache,
               rt_height |-> rt_height, rt_hash |-> rt_hash,
               cdc_cache |-> cdc_cache, sent |-> sent]
  IN IF ~netOk THEN [base EXCEPT !.res = "err", !.error = "MetashrewClient"]
     ELSE IF ~got.found THEN [base EXCEPT !.res = "notfound"]
     ELSE
       LET metadata == [height |-> h, hash |-> HexEncode(hash),
                        timestamp |-> AsMillis(now)]
           entered == [base EXCEPT !.rt_height = h, !.rt_hash = hash]
       IN IF ~wasmOk THEN [entered EXCEPT !.res = "err", !.error = "Runtime"]
          ELSE
            LET messages == BlockMessages(h, hash, now)
                cached == [entered EXCEPT !.cdc_cache = (h :> messages) @@ cdc_cache]
                add == AddBlock(cache, cache_size, metadata, messages, rt_state)
            IN IF ~add.ok
               THEN [cached EXCEPT !.res = "err", !.error = "BlockCache"]
               ELSE IF ~sinkOk
               THEN [cached EXCEPT !.cache = add.cache, !.res = "err", !.error = "Sink"]
               ELSE [cached EXCEPT !.cache = add.cache, !.sent = Append(sent, messages)]

\* the calls made on the sink once process_block or handle_reorg got to the
\* result r: one send, accepted or rejected, when r has something to send
SinkCallsAfter(r) ==
  IF r.sent # sent \/ r.error = "Sink" THEN Append(sink_calls, "send") ELSE sink_calls

\* the state changes of a process_block call, and run() failing on its error
ApplyProcessBlock(r) ==
  /\ cache' = r.cache
  /\ rt_height' = r.rt_height
  /\ rt_hash' = r.rt_hash
  /\ cdc_cache' = r.cdc_cache
  /\ sent' = r.sent
  /\ sink_calls' = SinkCallsAfter(r)
  /\ error' = r.error
  /\ UNCHANGED <<rt_state, upstream, now, config, control, checks>>

\* the value run() assigns to current_height after process_block(h) returned Ok
HeightAfterBlock(h, r) == h

\* (variant: the reported tip alone, ignoring the block count)
TargetHeightTipOnly(mh, abc) == mh

\* the bound of the forward loop
TargetHeight(mh, abc) == Min(mh, abc)

\* values get_actual_block_count can return (1 when the request fails)
BlockCounts == 0..MaxHeight

\* run(): head of the loop, up to the choice of the branch
Poll ==
  /\ pc = "poll"
  /\ IF ~running
     THEN /\ pc' = "returned"
          /\ UNCHANGED <<upstream, now, config, control, checks, current_height, locals, error,
                         cache, runtime, sent, sink_calls>>
     ELSE \E netOk \in BOOLEAN, abc \in BlockCounts :
            IF ~netOk
            THEN /\ pc' = "failed"
                 /\ error' = "MetashrewClient"
                 /\ UNCHANGED <<upstream, now, config, control, checks, current_height, locals,
                                cache, runtime, sent, sink_calls>>
            ELSE
              /\ metashrew_height' = tip
              /\ actual_block_count' = abc
              /\ probe_arm' = "none"
              /\ IF tip > abc /\ abc <= current_height /\ current_height + 1 <= tip
                 THEN /\ target_height' = current_height + 1
                      /\ height' = current_height + 1
                      /\ pc' = "disc"
                 ELSE /\ target_height' = TargetHeight(tip, abc)
                      /\ IF target_height' > current_height \/ current_height = 0
                         THEN /\ height' = current_height + 1
                              /\ pc' = IF height' <= target_height' THEN "fwd" ELSE "poll"
                         ELSE /\ height' = height
                              /\ pc' = "probe"
              /\ UNCHANGED <<upstream, now, config, control, checks, current_height, new_height,
                             error, cache, runtime, sent, sink_calls>>

\* run(): the discrepancy branch, one block past the block count
Discrepancy ==
  /\ pc = "disc"
  /\ \E netOk \in BOOLEAN, wasmOk \in BOOLEAN, sinkOk \in BOOLEAN :
       LET r == ProcessBlock(height, netOk, wasmOk, sinkOk)
       IN /\ ApplyProcessBlock(r)
          /\ IF r.res = "err"
             THEN pc' = "failed" /\ UNCHANGED current_height
             ELSE pc' = "poll" /\ current_height' = HeightAfterBlock(height, r)
          /\ UNCHANGED locals

\* run(): one turn of the forward loop
Forward ==
  /\ pc = "fwd"
  /\ \E netOk \in BOOLEAN, wasmOk \in BOOLEAN, sinkOk \in BOOLEAN :
       LET r == ProcessBlock(height, netOk, wasmOk, sinkOk)
       IN /\ ApplyProcessBlock(r)
          /\ IF r.res = "err"
             THEN pc' = "failed" /\ UNCHANGED <<current_height, height>>
             ELSE /\ current_height' = HeightAfterBlock(height, r)
                  /\ IF height < target_height
                     THEN pc' = "fwd" /\ height' = height + 1
                     ELSE pc' = "poll" /\ UNCHANGED height
          /\ UNCHANGED <<metashrew_height, actual_block_count, target_height, new_height,
                         probe_arm>>

\* (variant: the heights above the ancestor visited without .rev())
RECURSIVE UnwindOrderAscending(_, _)
UnwindOrderAscending(ancestor, cur) ==
  IF cur <= ancestor THEN <<>> ELSE UnwindOrderAscending(ancestor, cur - 1) \o <<cur>>

\* the heights handle_reorg inverts, in the order it inverts them
RECURSIVE UnwindOrder(_, _)
UnwindOrder(ancestor, cur) ==
  IF cur <= ancestor THEN <<>> ELSE <<cur>> \o UnwindOrder(ancestor, cur - 1)

\* (variant: a missing common ancestor is not an error, nothing is unwound)
UnwindLenient(nh, netOk, sinkOk) ==
  LET base == [res |-> "ok", error |-> NoError, ancestor |-> -1, cache |-> cache,
               rt_height |-> rt_height, rt_state |-> rt_state, sent |-> sent]
  IN IF ~netOk \/ \E h \in 0..nh : ~GetBlockHash(h).found
     THEN [base EXCEPT !.res = "err", !.error = "MetashrewClient"]
     ELSE
       LET new_hashes == [h \in 0..nh |-> HexEncode(GetBlockHash(h).hash)]
           common_ancestor == FindCommonAncestor(cache, new_hashes)
       IN IF common_ancestor = -1
          THEN [base EXCEPT !.ancestor = current_height]
          ELSE
            LET state_snapshot == GetStateSnapshot(cache, common_ancestor)
                heights == UnwindOrder(common_ancestor, current_height)
                inverses == [i \in 1..Len(heights) |->
                               ComputeInverseMessages(cdc_cache, heights[i], rt_hash, now)]
                inverse_messages == Flatten([i \in 1..Len(heights) |-> inverses[i].messages])
                reset == [base EXCEPT !.ancestor = common_ancestor,
                                      !.rt_height = common_ancestor,
                                      !.rt_state = state_snapshot]
            IN IF \E i \in 1..Len(heights) : ~inverses[i].ok
               THEN [base EXCEPT !.res = "err", !.error = "Runtime"]
               ELSE IF inverse_messages # <<>> /\ ~sinkOk
               THEN [reset EXCEPT !.res = "err", !.error = "Sink"]
               ELSE [reset EXCEPT
                       !.sent = IF inverse_messages # <<>>
                                THEN Append(sent, inverse_messages) ELSE sent,
                       !.cache = Rollback(cache, common_ancestor)]

\* handle_reorg(nh) up to the rollback of the cache: collect the hashes of
\* 0..nh, find the common ancestor, send the inverses, reset the runtime
Unwind(nh, netOk, sinkOk) ==
  LET base == [res |-> "ok", error |-> NoError, ancestor |-> -1, cache |-> cache,
               rt_height |-> rt_height, rt_state |-> rt_state, sent |-> sent]
  IN IF ~netOk \/ \E h \in 0..nh : ~GetBlockHash(h).found
     THEN [base EXCEPT !.res = "err", !.error = "MetashrewClient"]
     ELSE
       LET new_hashes == [h \in 0..nh |-> HexEncode(GetBlockHash(h).hash)]
           common_ancestor == FindCommonAncestor(cache, new_hashes)
       IN IF common_ancestor = -1
          THEN [base EXCEPT !.res = "err", !.error = "ReorgHandling"]
          ELSE
            LET state_snapshot == GetStateSnapshot(cache, common_ancestor)
                heights == UnwindOrder(common_ancestor, current_height)
                inverses == [i \in 1..Len(heights) |->
                               ComputeInverseMessages(cdc_cache, heights[i], rt_hash, now)]
                inverse_messages == Flatten([i \in 1..Len(heights) |-> inverses[i].messages])
                reset == [base EXCEPT !.ancestor = common_ancestor,
                                      !.rt_height = common_ancestor,
                                      !.rt_state = state_snapshot]
            IN IF \E i \in 1..Len(heights) : ~inverses[i].ok
               THEN [base EXCEPT !.res = "err", !.error = "Runtime"]
               ELSE IF inverse_messages # <<>> /\ ~sinkOk
               THEN [reset EXCEPT !.res = "err", !.error = "Sink"]
               ELSE [reset EXCEPT
                       !.sent = IF inverse_messages # <<>>
                                THEN Append(sent, inverse_messages) ELSE sent,
                       !.cache = Rollback(cache, common_ancestor)]

\* the value of self.current_height when handle_reorg returns
HeightAfterUnwind(cur, ancestor) == cur

\* the state changes of handle_reorg(nh) up to its replay loop
HandleReorg(nh, arm, netOk, sinkOk) ==
  LET r == Unwind(nh, netOk, sinkOk)
  IN /\ probe_arm' = arm
     /\ cache' = r.cache
     /\ rt_height' = r.rt_height
     /\ rt_state' = r.rt_state
     /\ sent' = r.sent
     /\ sink_calls' = SinkCallsAfter(r)
     /\ error' = r.error
     /\ IF r.res = "err"
        THEN pc' = "failed" /\ UNCHANGED <<current_height, height, new_height>>
        ELSE /\ pc' = "replay"
             /\ height' = r.ancestor + 1
             /\ new_height' = nh
             /\ current_height' = HeightAfterUnwind(current_height, r.ancestor)
     /\ UNCHANGED <<upstream, now, config, control, checks, rt_hash, cdc_cache, metashrew_height,
                    actual_block_count, target_height>>

\* the height the failed-probe branch of run() hands to handle_reorg: the
\* highest height in 1..cur-1 whose hash can be fetched, 0 when the walk
\* reaches genesis, -1 when the walk does not start (cur = 1)
WalkTarget(cur, netOk) ==
  LET serving == {t \in 1..(cur - 1) : netOk /\ GetBlockHash(t).found}
  IN IF cur - 1 = 0 THEN -1
     ELSE IF serving = {} THEN 0
     ELSE CHOOSE t \in serving : \A u \in serving : u <= t

\* run(): the reorg probe of an iteration without new blocks, with the
\* unwind of handle_reorg when the probe finds a reorg
Probe ==
  /\ pc = "probe"
  /\ \E probeOk \in BOOLEAN, netOk \in BOOLEAN, sinkOk \in BOOLEAN :
       LET i == GetBlockAtHeight(cache, current_height)
           got == GetBlockHash(current_height)
           idle == /\ pc' = "poll"
                   /\ UNCHANGED <<upstream, now, config, control, checks, current_height,
                                  locals, error, cache, runtime, sent, sink_calls>>
       IN IF i = 0 THEN idle
          ELSE IF probeOk /\ got.found
          THEN IF HexEncode(got.hash) # cache[i].metadata.hash
               THEN HandleReorg(current_height - 1, "mismatch", netOk, sinkOk)
               ELSE idle
          ELSE IF WalkTarget(current_height, netOk) = -1 THEN idle
               ELSE HandleReorg(WalkTarget(current_height, netOk), "error", netOk, sinkOk)

\* handle_reorg: one turn of the replay loop, and the return to run()
Replay ==
  /\ pc = "replay"
  /\ IF height > new_height
     THEN /\ pc' = "poll"
          /\ UNCHANGED <<upstream, now, config, control, checks, current_height, locals,
                         error, cache, runtime, sent, sink_calls>>
     ELSE \E netOk \in BOOLEAN, wasmOk \in BOOLEAN, sinkOk \in BOOLEAN :
            LET r == ProcessBlock(height, netOk, wasmOk, sinkOk)
            IN /\ ApplyProcessBlock(r)
               /\ IF r.res = "err"
                  THEN pc' = "failed" /\ UNCHANGED height
                  ELSE pc' = "replay" /\ height' = height + 1
               /\ UNCHANGED <<current_height, metashrew_height, actual_block_count,
                              target_height, new_height, probe_arm>>

\* ------------------------------------------------------------- environment
\* the upstream reports a new tip; the hash may be served only later
UpstreamAdvance ==
  /\ tip < MaxHeight
  /\ tip' = tip + 1
  /\ \E served \in BOOLEAN :
       chain' = IF served /\ Len(chain) = tip + 1 THEN Append(chain, <<forks>>) ELSE chain
  /\ UNCHANGED <<config, control, checks, forks, now, pc, current_height, locals, error, cache,
                 runtime, sent, sink_calls>>

\* the upstream starts serving the hash of a height it already reported
UpstreamIndex ==
  /\ Len(chain) <= tip
  /\ chain' = Append(chain, <<forks>>)
  /\ UNCHANGED <<config, control, checks, tip, forks, now, pc, current_height, locals,
                 error, cache, runtime, sent, sink_calls>>

\* the upstream replaces every block above height a by n new blocks
UpstreamReorg ==
  /\ forks < MaxReorgs
  /\ \E a \in 0..(Len(chain) - 2), n \in 0..MaxHeight :
       /\ a + n <= MaxHeight
       /\ chain' = SubSeq(chain, 1, a + 1) \o [i \in 1..n |-> <<forks + 1>>]
       /\ tip' = a + n
  /\ forks' = forks + 1
  /\ UNCHANGED <<config, control, checks, now, pc, current_height, locals, error, cache,
                 runtime, sent, sink_calls>>

\* the wall clock advances
Tick ==
  /\ now < MaxClock
  /\ now' = now + 1
  /\ UNCHANGED <<config, control, checks, upstream, pc, current_height, locals, error, cache,
                 runtime, sent, sink_calls>>

\* run() is called: lines 144-150, before the loop
Start ==
  /\ pc = "idle"
  /\ pc' = "poll"
  /\ running' = TRUE
  /\ UNCHANGED <<upstream, now, config, checks, stop_signalled, current_height, locals,
                 error, cache, runtime, sent, sink_calls>>

\* stop() is called; it takes &mut self, as run() does, so it can only be
\* called while run() is not executing
Stop ==
  /\ pc \in {"idle", "returned", "failed"}
  /\ ~stop_signalled
  /\ running' = FALSE
  /\ stop_signalled' = TRUE
  /\ UNCHANGED <<upstream, now, config, checks, pc, current_height, locals, error,
                 cache, runtime, sent, sink_calls>>

\* no inversion is being checked
InversionIdle ==
  /\ batch_in = <<>>
  /\ inv_block = 1
  /\ batch_out = <<>>
  /\ batch_back = <<>>
  /\ store_in = <<>>
  /\ store_now = <<>>

\* the guest has not run
HostIdle ==
  /\ guest_batch = <<>>
  /\ emitted = <<>>
  /\ view_result = <<>>
  /\ host_call = <<"none", "">>
  /\ host_ret = 0
  /\ guest_buf = [ok |-> TRUE, bytes |-> <<>>]
  /\ guest_kv = <<>>

\* nobody holds the runtime or the cache, process_block is not executing
LocksIdle ==
  /\ runtime_lock = "free"
  /\ cache_lock = "free"
  /\ transform_result = None

\* MemoryMetashrewAdapter::new(): one adapter over one fresh AdapterState
AdapterIdle ==
  /\ cells = <<[height |-> 0, block_hashes |-> <<>>, view_results |-> <<>>,
                identifier |-> <<"memory-adapter">>]>>
  /\ handles = [a \in {"original"} |-> 1]
  /\ adapter_call = [op |-> "new", on |-> "original", before |-> <<>>]
  /\ adapter_ops = 0

\* the transform module is freshly instantiated, the test processor new
GuestIdle ==
  /\ instance = None
  /\ processor = [processed_height |-> None, cdc_history |-> <<>>, hashes |-> <<>>]
  /\ guest_call = [op |-> "none"]
  /\ created = <<>>
  /\ guest_ops = 0

\* ----------------------------------------------------------- specification
Init ==
  /\ chain = << <<0>> >>
  /\ tip = 0
  /\ forks = 0
  /\ now = 0
  /\ pc = "idle"
  /\ running = FALSE
  /\ stop_signalled = FALSE
  /\ sink_calls = <<>>
  /\ InversionIdle
  /\ HostIdle
  /\ LocksIdle
  /\ AdapterIdle
  /\ GuestIdle
  /\ current_height = StartHeight
  /\ metashrew_height = 0
  /\ actual_block_count = 0
  /\ target_height = 0
  /\ height = 0
  /\ new_height = 0
  /\ probe_arm = "none"
  /\ error = NoError
  /\ cache_size \in 1..MaxCacheSize
  /\ cache = <<>>
  /\ rt_height = 0
  /\ rt_hash = EmptyHash
  /\ rt_state = EmptyState
  /\ cdc_cache = <<>>
  /\ sent = <<>>

Next ==
  \/ Start
  \/ Stop
  \/ Poll
  \/ Discrepancy
  \/ Forward
  \/ Probe
  \/ Replay
  \/ UpstreamAdvance
  \/ UpstreamIndex
  \/ UpstreamReorg
  \/ Tick

Spec == Init /\ [][Next]_vars

\* the steps of the driver task, which the executor keeps scheduling
Driver == Start \/ Poll \/ Discrepancy \/ Forward \/ Probe \/ Replay

FairSpec == Spec /\ WF_vars(Driver)

\* ------------------------------------------------------ downstream consumer
\* a downstream store applying one CDC message: rows keyed by (table, key)
ApplyMessage(store, m) ==
  LET k == <<m.payload.table, m.payload.key>>
  IN IF m.payload.operation = "Delete"
     THEN [j \in DOMAIN store \ {k} |-> store[j]]
     ELSE [j \in DOMAIN store \cup {k} |-> IF j = k THEN m.payload.after[1] ELSE store[j]]

RECURSIVE ApplyAll(_, _)
ApplyAll(store, messages) ==
  IF messages = <<>> THEN store
  ELSE ApplyAll(ApplyMessage(store, Head(messages)), Tail(messages))

\* a store without the wall-clock field of its rows
Rows(store) == [k \in DOMAIN store |-> [height |-> store[k].height, hash |-> store[k].hash]]

\* the store of a consumer that applied every batch the sink accepted
DownstreamStore == ApplyAll(<<>>, Flatten(sent))

\* the store of a consumer that saw only the forward batches of the chain the
\* upstream serves now, for the heights the driver processes from its start
CanonicalStore ==
  ApplyAll(<<>>, Flatten([i \in 1..(current_height - StartHeight) |->
                            BlockMessages(StartHeight + i, chain[StartHeight + i + 1], now)]))

\* some batch of inverses was sent
Unwound == \E i \in 1..Len(sent) : sent[i][1].payload.operation = "Delete"

\* m is the inverse of a block the upstream no longer serves at its height
InvertsReplaced(m) ==
  /\ m.payload.operation = "Delete"
  /\ LET row == m.payload.before[1]
     IN ~(row.height + 1 <= Len(chain) /\ row.hash = HexEncode(chain[row.height + 1]))

\* inverses were sent, and only for blocks that the upstream replaced
UnwoundReplaced ==
  /\ Unwound
  /\ \A i \in 1..Len(sent) : \A j \in 1..Len(sent[i]) :
       sent[i][j].payload.operation = "Delete" => InvertsReplaced(sent[i][j])

\* the iteration that just ended unwound a reorg found by a hash mismatch
ReorgHandled == pc = "poll" /\ probe_arm = "mismatch"

\* the driver is between iterations, at the tip of a chain that is fully served
AtServedTip ==
  /\ pc = "poll"
  /\ error = NoError
  /\ current_height = tip
  /\ Len(chain) = tip + 1

\* ------------------------------------------------------------------ claims
\* C1: after a reorg within the window was unwound and the new chain replayed,
\* the store built from every batch sent (forward and inverse) equals the
\* store built from the forward batches of the new canonical chain alone.
C1_ReorgStoreEquivalence ==
  (ReorgHandled /\ AtServedTip /\ UnwoundReplaced) => Rows(DownstreamStore) = Rows(CanonicalStore)

\* the cached entry e carries the hash the upstream serves for its height
HashCurrent(e) ==
  /\ e.metadata.height + 1 <= Len(chain)
  /\ e.metadata.hash = HexEncode(chain[e.metadata.height + 1])

\* this step made the sink accept a forward batch (the batch of a block)
ForwardSent ==
  /\ Len(sent') = Len(sent) + 1
  /\ sent'[Len(sent')][1].payload.operation = "Create"

\* this step made the sink accept a batch of inverses
InverseSent ==
  /\ Len(sent') = Len(sent) + 1
  /\ sent'[Len(sent')][1].payload.operation = "Delete"

\* the height of the batch the sink accepted last
LastSentHeight(batches) == batches[Len(batches)][1].header.block_height

\* C2: when processed heights were replaced upstream and the tip moved on, the
\* inverses of the replaced heights go out before any forward batch of the new
\* chain: no forward batch is sent for a height above a cached entry whose
\* hash differs from the one the upstream serves while the cache holds a
\* common ancestor below that entry.
C2_UnwindBeforeForward ==
  [][(pc = "fwd" /\ ForwardSent) =>
       \A i \in 1..Len(cache) :
         ( /\ cache[i].metadata.height < LastSentHeight(sent')
           /\ \E j \in 1..Len(cache) : j < i /\ HashCurrent(cache[j]) )
         => HashCurrent(cache[i])]_vars

\* the highest cached height below cur whose hash the upstream still serves
CachedAncestor(cur) ==
  LET common == {i \in 1..Len(cache) :
                   cache[i].metadata.height < cur /\ HashCurrent(cache[i])}
  IN cache[CHOOSE i \in common : \A j \in common : j <= i]

\* this step is the unwind of a reorg found by a hash mismatch at current_height
MismatchUnwind == pc = "probe" /\ pc' = "replay" /\ probe_arm' = "mismatch"

\* C3: the unwind to the common ancestor a leaves current_height = a, the
\* cache ending at a, the runtime at height a with the snapshot stored for a,
\* and forward processing resuming at a + 1.
C3_UnwindResetsToAncestor ==
  [][MismatchUnwind =>
       LET a == CachedAncestor(current_height)
       IN /\ current_height' = a.metadata.height
          /\ cache' # <<>>
          /\ cache'[Len(cache')] = a
          /\ rt_height' = a.metadata.height
          /\ rt_state' = a.state_snapshot
          /\ height' = a.metadata.height + 1]_vars

\* the upstream can change no more: no reorg left, the chain at its full
\* height and every hash served
UpstreamSettled == forks = MaxReorgs /\ tip = MaxHeight /\ Len(chain) = tip + 1

\* the driver is at the tip and the cache holds the upstream's chain up to it
Synced ==
  /\ current_height = tip
  /\ tip \in CacheHeights(cache)
  /\ \A i \in 1..Len(cache) : HashCurrent(cache[i])

\* C4: once the upstream stops changing after a reorg within the window, the
\* driver (unless a call fails) eventually reaches and stays in a state where
\* current_height is the tip and the cache holds the upstream's hashes, with an
\* entry at the tip.
C4_ConvergesAfterReorg ==
  []((pc = "replay" /\ probe_arm = "mismatch" /\ UpstreamSettled)
       => <>[](Synced \/ pc = "failed"))

\* the heights of the batches the sink accepted, in order
SentHeights == [i \in 1..Len(sent) |-> sent[i][1].payload.after[1].height]

\* the last iteration entered the forward loop with the tip the upstream has now
ForwardRunDone ==
  /\ AtServedTip
  /\ height > StartHeight
  /\ metashrew_height = tip
  /\ actual_block_count >= tip
  /\ forks = 0
  /\ ~Unwound

\* C5: a forward run from height 0 without reorg sends exactly one forward
\* batch for each height 0..T in ascending order (height 0 included), ends with
\* current_height = T and caches the heights of 0..T that fit in the window.
C5_ForwardRunFromGenesis ==
  (StartHeight = 0 /\ ForwardRunDone) =>
     /\ SentHeights = [i \in 1..(tip + 1) |-> i - 1]
     /\ CacheHeights(cache) = {h \in 0..tip : h > tip - cache_size}

\* the sink accepted the forward batch of height h
BatchSentFor(batches, h) ==
  \E i \in 1..Len(batches) :
    /\ batches[i][1].payload.operation = "Create"
    /\ batches[i][1].header.block_height = h

\* a forward batch that follows a forward batch is for the next height
ConsecutiveForward ==
  (ForwardSent /\ sent # <<>> /\ sent[Len(sent)][1].payload.operation = "Create")
     => LastSentHeight(sent') = LastSentHeight(sent) + 1

\* current_height moves to h only once the batch of h was sent
AdvanceAfterSend ==
  current_height' # current_height => BatchSentFor(sent', current_height')

\* C6: between two unwinds the forward batches are for consecutive heights in
\* increasing order (none skipped, none sent twice), and current_height only
\* moves to h after the batch for h was sent.
C6_ForwardBatchesConsecutive == [][ConsecutiveForward /\ AdvanceAfterSend]_vars

\* the payload that undoes the payload p on a downstream store
UndoPayload(p) ==
  [ operation |-> CASE p.operation = "Create" -> "Delete"
                    [] p.operation = "Delete" -> "Create"
                    [] OTHER -> "Update",
    table |-> p.table, key |-> p.key, before |-> p.after, after |-> p.before ]

Payloads(messages) == [i \in 1..Len(messages) |-> messages[i].payload]

\* the payloads undoing a batch: one per message, last message first
UndoBatch(messages) ==
  [i \in 1..Len(messages) |-> UndoPayload(messages[Len(messages) + 1 - i].payload)]

\* the batch the cache holds for height h
CachedBatch(h) == cache[GetBlockAtHeight(cache, h)].cdc_messages

\* this step is the unwind of handle_reorg, from current_height to the
\* height the cache ends at afterwards
UnwindStep == pc = "probe" /\ pc' = "replay"

\* sample batches of up to two messages over two keys and the three operations
SampleMessage(op, k) ==
  [ header |-> [ source |-> "block_transform", timestamp |-> AsMillis(0),
                 block_height |-> 2, block_hash |-> HexEncode(<<0>>),
                 transaction_id |-> Some("tx") ],
    payload |-> [ operation |-> op, table |-> "blocks", key |-> HeightToString(k),
                  before |-> IF op = "Create" THEN None ELSE Some([old |-> k]),
                  after |-> IF op = "Delete" THEN None ELSE Some([new |-> k]) ] ]

SampleMessages == {SampleMessage(op, k) : op \in {"Create", "Update", "Delete"}, k \in 1..2}

SampleBatches ==
  {<<>>} \cup {<<m>> : m \in SampleMessages}
         \cup {<<m, n>> : m \in SampleMessages, n \in SampleMessages}

\* C7: an unwind from current_height c to the ancestor a issues exactly one
\* send, holding the inverses of the batches of c, c-1, ..., a+1 in that
\* order, each batch last message first, one inverse per message, and nothing
\* for a height at or below a.
C7_UnwindIsOneOrderedSend ==
  /\ \A b \in SampleBatches :
       Payloads(InverseOfMessages(b, 2, <<0>>, 0)) = UndoBatch(b)
  /\ [][UnwindStep =>
          LET a == cache'[Len(cache')].metadata.height
              c == current_height
          IN /\ Len(sent') = Len(sent) + 1
             /\ Payloads(sent'[Len(sent')]) =
                  Flatten([i \in 1..(c - a) |-> UndoBatch(CachedBatch(c + 1 - i))])]_vars

\* an unwind over two heights was sent as one batch of two inverses
C7_Witness ==
  \E i \in 1..Len(sent) :
    /\ Len(sent[i]) = 2
    /\ sent[i][1].payload.operation = "Delete"
    /\ sent[i][1].payload.key = HeightToString(3)
    /\ sent[i][2].payload.key = HeightToString(2)

\* the driver is advancing and the upstream does not serve the hash of the
\* height it is about to process
AdvancingOntoMissing == pc \in {"fwd", "disc"} /\ ~GetBlockHash(height).found

\* C8: a block hash that is not found while advancing is tip-not-ready: the
\* driver stops advancing for this iteration, caches and sends nothing for h or
\* above, keeps current_height at h - 1 and does not fail.
C8_NotFoundStopsAdvance ==
  [][(AdvancingOntoMissing /\ error' = NoError) =>
       /\ current_height' = current_height
       /\ cache' = cache
       /\ sent' = sent
       /\ pc' = "poll" \/ (pc' = pc /\ height' = height)]_vars

\* the driver is about to call process_block(height)
AboutToProcess == pc \in {"fwd", "disc"} \/ (pc = "replay" /\ height <= new_height)

\* the target of the iteration: the smaller of the tip and the block count
\* read by its poll
IterationTarget == Min(metashrew_height, actual_block_count)

\* C9 (as stated): in every iteration the driver processes only heights h with
\* current_height < h <= min(tip, block count) as read in that iteration, and
\* no block at all when min(tip, block count) <= current_height.
C9_OnlyUpToTarget ==
  AboutToProcess => (current_height < height /\ height <= IterationTarget)

\* C9 (amended): the forward loop processes only heights h with
\* current_height < h <= min(tip, block count); the discrepancy branch (tip
\* above the block count, block count at or below current_height) processes
\* current_height + 1 <= tip; the replay of handle_reorg, which runs only when
\* min(tip, block count) <= current_height, processes heights below
\* current_height.
C9_TargetPerBranch ==
  /\ pc = "fwd" =>
       (height = current_height + 1 /\ height <= IterationTarget)
  /\ pc = "disc" =>
       /\ height = current_height + 1
       /\ height <= metashrew_height
       /\ actual_block_count < metashrew_height
       /\ actual_block_count <= current_height
  /\ (pc = "replay" /\ height <= new_height) =>
       (height < current_height /\ IterationTarget <= current_height)

\* the forward loop is about to process the last height the block count allows
\* while the tip is higher
C9_Witness ==
  /\ pc = "fwd"
  /\ actual_block_count < metashrew_height
  /\ height = actual_block_count
  /\ height > 1

\* C10: in every reachable state the cached heights form a contiguous range
\* and the cache holds at most W entries.
C10_CacheContiguousBounded ==
  /\ Len(cache) <= cache_size
  /\ \A i \in 1..(Len(cache) - 1) :
       cache[i + 1].metadata.height = cache[i].metadata.height + 1

\* the cache after appends, a window eviction and a rollback
C10_Witness ==
  /\ Unwound
  /\ cache # <<>>
  /\ cache[1].metadata.height > StartHeight + 1

\* C11: a cache entry for height h exists only if the sink accepted the
\* forward batch of h: when the send of the batch of h fails, the cache holds
\* no entry for h afterwards.
C11_CachedOnlyIfSent ==
  [][(AboutToProcess /\ error' = "Sink") => height \notin CacheHeights(cache')]_vars

\* C12: when the transform fails (negative return or trap) at height h, the
\* driver surfaces an error, creates no cache entry for h, sends no batch for
\* h, and current_height stays at h - 1.
C12_TransformFailureStops ==
  [][(AboutToProcess /\ error' = "Runtime") =>
       /\ pc' = "failed"
       /\ cache' = cache
       /\ sent' = sent
       /\ current_height' = height - 1]_vars

\* the probe is about to find a hash mismatch at current_height while no
\* cached entry carries the hash the upstream serves for its height
MismatchBeyondWindow ==
  /\ pc = "probe"
  /\ GetBlockAtHeight(cache, current_height) # 0
  /\ \A i \in 1..Len(cache) : ~HashCurrent(cache[i])

\* C13: a hash mismatch with no common ancestor in the cache (a reorg deeper
\* than the window) ends the run with a fatal reorg error; nothing is sent
\* after the detection, and the cache and current_height are unchanged.
C13_DeepReorgIsFatal ==
  [][(MismatchBeyondWindow /\ probe_arm' = "mismatch" /\ error' # "MetashrewClient") =>
       /\ pc' = "failed"
       /\ error' = "ReorgHandling"
       /\ sent' = sent
       /\ cache' = cache
       /\ current_height' = current_height]_vars

\* the run ended on a reorg deeper than the window, with blocks cached and sent
C13_Witness ==
  /\ pc = "failed"
  /\ error = "ReorgHandling"
  /\ probe_arm = "mismatch"
  /\ Len(cache) >= 2
  /\ \A i \in 1..Len(cache) : ~HashCurrent(cache[i])

\* run() has returned, with Ok or with an error
RunReturned == pc \in {"returned", "failed"}

\* C14: whenever run terminates, by a stop or by a fatal error, flush and then
\* close have been called on the sink before run returns.
C14_FlushCloseOnReturn ==
  RunReturned =>
    /\ Len(sink_calls) >= 2
    /\ sink_calls[Len(sink_calls) - 1] = "flush"
    /\ sink_calls[Len(sink_calls)] = "close"

\* C15: once stop is signalled the driver finishes at most the iteration in
\* progress and starts no further block (and run returns); no stop takes effect
\* between a block's transform execution and the send of its batch.
C15_StopStartsNoBlock == stop_signalled => ~AboutToProcess

\* this step called process_block(height) and the sink rejected its batch
SendRejected == AboutToProcess /\ error' = "Sink"

\* C16: when the sink rejects the batch of height h the driver retries that
\* same batch: it stays at h (the run goes on), current_height does not pass
\* h - 1, and no batch of another height is sent in between.
C16_RejectedSendRetried ==
  [][SendRejected =>
       /\ pc' # "failed"
       /\ height' = height
       /\ current_height' = current_height
       /\ sent' = sent]_vars

\* C17: a transport failure of an upstream call (tip height or block hash) does
\* not end the run: no run ever returns an upstream client error.
C17_UpstreamFailureNotFatal == ~(pc = "failed" /\ error = "MetashrewClient")

\* C19: every inverse message of an unwind carries the unwind's target height
\* (the common ancestor the cache ends at afterwards) in its header, whatever
\* the height of the block it inverts.
C19_InverseCarriesTarget ==
  [][UnwindStep =>
       \A j \in 1..Len(sent'[Len(sent')]) :
         sent'[Len(sent')][j].header.block_height = cache'[Len(cache')].metadata.height]_vars

\* ---------------------------------------------------------- inversion check
\* downstream stores over the keys of the sample messages: a key is absent,
\* holds the before-image of the samples, or holds their after-image
SampleKeys == {<<"blocks", HeightToString(k)>> : k \in 1..2}

SampleStores ==
  UNION {[K -> {"old", "new"}] : K \in SUBSET SampleKeys}

\* the rows of a sample store
StoreOf(tags) ==
  [key \in DOMAIN tags |-> IF tags[key] = "old" THEN [old |-> key[2][2]]
                           ELSE [new |-> key[2][2]]]

\* a block of height inv_block emitted batch_in, and a consumer holds store_in
InvertInit ==
  /\ chain = << <<0>> >>
  /\ tip = 0
  /\ forks = 0
  /\ now = 0
  /\ pc = "apply"
  /\ running = FALSE
  /\ stop_signalled = FALSE
  /\ sink_calls = <<>>
  /\ current_height = StartHeight
  /\ metashrew_height = 0
  /\ actual_block_count = 0
  /\ target_height = 0
  /\ height = 0
  /\ new_height = 0
  /\ probe_arm = "none"
  /\ error = NoError
  /\ cache_size = 1
  /\ cache = <<>>
  /\ inv_block \in 1..MaxHeight
  /\ rt_height = inv_block
  /\ rt_hash \in {<<0>>, <<1>>}
  /\ rt_state = EmptyState
  /\ batch_in \in SampleBatches
  /\ cdc_cache = (inv_block :> batch_in)
  /\ sent = <<>>
  /\ batch_out = <<>>
  /\ batch_back = <<>>
  /\ \E tags \in SampleStores : store_in = StoreOf(tags)
  /\ store_now = store_in
  /\ HostIdle
  /\ LocksIdle
  /\ AdapterIdle
  /\ GuestIdle

\* the consumer applies the batch of the block
ApplyForward ==
  /\ pc = "apply"
  /\ store_now' = ApplyAll(store_now, batch_in)
  /\ pc' = "invert"
  /\ UNCHANGED <<upstream, now, config, control, host, side, current_height, locals, error, cache,
                 runtime, sent, sink_calls, batch_in, inv_block, batch_out, batch_back, store_in>>

\* WasmRuntime::compute_inverse_messages(inv_block)
InvertBatch ==
  /\ pc = "invert"
  /\ batch_out' = ComputeInverseMessages(cdc_cache, inv_block, rt_hash, now).messages
  /\ pc' = "undo"
  /\ UNCHANGED <<upstream, now, config, control, host, side, current_height, locals, error, cache,
                 runtime, sent, sink_calls, batch_in, inv_block, batch_back, store_in, store_now>>

\* the consumer applies the inverse batch
ApplyInverse ==
  /\ pc = "undo"
  /\ store_now' = ApplyAll(store_now, batch_out)
  /\ pc' = "done"
  /\ UNCHANGED <<upstream, now, config, control, host, side, current_height, locals, error, cache,
                 runtime, sent, sink_calls, batch_in, inv_block, batch_out, batch_back, store_in>>

\* the inverse batch is inverted once more, message by message
\* (WasmRuntime::invert_cdc_message with the height of the block)
InvertBack ==
  /\ pc = "done"
  /\ batch_back' = [i \in 1..Len(batch_out) |->
                      InvertCdcMessage(batch_out[Len(batch_out) + 1 - i], inv_block, rt_hash, now)]
  /\ pc' = "back"
  /\ UNCHANGED <<upstream, now, config, control, host, side, current_height, locals, error, cache,
                 runtime, sent, sink_calls, batch_in, inv_block, batch_out, store_in,
                 store_now>>

InvertNext == ApplyForward \/ InvertBatch \/ ApplyInverse \/ InvertBack

InvertSpec == InvertInit /\ [][InvertNext]_vars

\* the per-operation invariant of a payload: Create has no before-image and an
\* after-image, Delete the opposite, Update has both
WellFormed(p) ==
  CASE p.operation = "Create" -> p.before = None /\ p.after # None
    [] p.operation = "Update" -> p.before # None /\ p.after # None
    [] p.operation = "Delete" -> p.before # None /\ p.after = None

\* r is what the claim says the inverse of m is, for the new height new_h
InverseAsSpecified(m, r, new_h) ==
  /\ r.header.source = m.header.source
  /\ r.header.block_height = new_h
  /\ r.header.transaction_id = None
  /\ r.payload.table = m.payload.table
  /\ r.payload.key = m.payload.key
  /\ r.payload.operation = CASE m.payload.operation = "Create" -> "Delete"
                             [] m.payload.operation = "Delete" -> "Create"
                             [] m.payload.operation = "Update" -> "Update"
  /\ r.payload.before = m.payload.after
  /\ r.payload.after = m.payload.before
  /\ WellFormed(r.payload)

\* C18: invert_cdc_message is total and maps Create(none, X) to Delete(X, none),
\* Delete(X, none) to Create(none, X) and Update(X, Y) to Update(Y, X), keeping
\* source, table and key, with no transaction id and the given new height in
\* the header; the result satisfies the per-operation before/after invariant.
C18_InvertCdcMessage ==
  pc \in {"undo", "done"} =>
    /\ Len(batch_out) = Len(batch_in)
    /\ \A i \in 1..Len(batch_in) :
         InverseAsSpecified(batch_in[i], batch_out[Len(batch_in) + 1 - i], inv_block - 1)

\* a batch of an Update and a Delete was inverted
C18_Witness ==
  /\ pc = "undo"
  /\ Len(batch_in) = 2
  /\ batch_in[1].payload.operation = "Update"
  /\ batch_in[2].payload.operation = "Delete"
  /\ batch_out[1].payload.operation = "Create"

\* each (table, key) is written at most once in the batch
SingleWriter(b) ==
  \A i, j \in 1..Len(b) :
    i # j => <<b[i].payload.table, b[i].payload.key>> # <<b[j].payload.table, b[j].payload.key>>

\* the before-images of the batch are what the store holds
BeforeImagesMatch(st, b) ==
  \A i \in 1..Len(b) :
    LET p == b[i].payload
        k == <<p.table, p.key>>
    IN IF p.before = None THEN k \notin DOMAIN st
       ELSE k \in DOMAIN st /\ st[k] = p.before[1]

\* C20: for a batch writing each (table, key) at most once with before-images
\* matching the store, applying the batch and then its inverse batch returns
\* the store to its state before the batch.
C20_ApplyThenInverseIsIdentity ==
  (pc = "done" /\ SingleWriter(batch_in) /\ BeforeImagesMatch(store_in, batch_in))
    => store_now = store_in

\* a batch updating one row and creating another was applied and undone
C20_Witness ==
  /\ pc = "done"
  /\ SingleWriter(batch_in)
  /\ BeforeImagesMatch(store_in, batch_in)
  /\ Len(batch_in) = 2
  /\ batch_in[1].payload.operation = "Update"
  /\ batch_in[2].payload.operation = "Create"
  /\ Len(batch_out) = 2

\* C21 (as stated): inverting the inverse of a message restores every field
\* but the header timestamp and block height: operation, before, after,
\* source, table, key, block_hash and transaction_id.
C21_DoubleInverseRestoresAll ==
  pc = "back" =>
    \A i \in 1..Len(batch_in) :
      /\ batch_back[i].payload = batch_in[i].payload
      /\ batch_back[i].header.source = batch_in[i].header.source
      /\ batch_back[i].header.block_hash = batch_in[i].header.block_hash
      /\ batch_back[i].header.transaction_id = batch_in[i].header.transaction_id

\* C21 (amended): inverting the inverse restores operation, before, after,
\* table, key and source; the transaction id of the result is none and its
\* block hash is the runtime's current hash, whatever the original held.
C21_DoubleInverseRestoresPayload ==
  pc = "back" =>
    /\ Len(batch_back) = Len(batch_in)
    /\ \A i \in 1..Len(batch_in) :
         /\ batch_back[i].payload = batch_in[i].payload
         /\ batch_back[i].header.source = batch_in[i].header.source
         /\ batch_back[i].header.transaction_id = None
         /\ batch_back[i].header.block_hash = HexEncode(rt_hash)

\* a Create and an Update were inverted twice by a runtime whose current hash
\* is not the hash in their headers
C21_Witness ==
  /\ pc = "back"
  /\ Len(batch_back) = 2
  /\ batch_in[1].payload.operation = "Create"
  /\ batch_in[2].payload.operation = "Update"
  /\ batch_in[1].header.block_hash # HexEncode(rt_hash)

\* ----------------------------------------------------------- host interface
\* the views a transform calls, and the bytes the upstream returns for a view
\* at a height (call_view is a function of name, input and height)
ViewNames == {"balance", "nothing"}

UpstreamView(h, name) == IF name = "nothing" THEN <<>> ELSE <<h, h>>

\* the height __view hands to call_view: Some(current_height)
ViewHeight == rt_height

\* keys and values of the transform's state
StateKeys == {"k"}
StateValues == {<<5>>, <<6>>}

\* what a transform's entry point can produce
GuestBatches ==
  {<<>>, <<SampleMessage("Create", 1)>>,
   <<SampleMessage("Update", 1), SampleMessage("Delete", 2)>>}

\* a guest buffer of n zero bytes after __load(ptr): the bytes of view_result
\* written from its start, nothing written when view_result is empty
Loaded(n, result) == [i \in 1..n |-> IF i <= Len(result) THEN result[i] ELSE 0]

\* a runtime that has processed nothing, on a chain of MaxHeight blocks
RuntimeInit ==
  /\ chain = [i \in 1..(MaxHeight + 1) |-> <<0>>]
  /\ tip = MaxHeight
  /\ forks = 0
  /\ now = 0
  /\ pc = "rt_idle"
  /\ running = FALSE
  /\ stop_signalled = FALSE
  /\ sink_calls = <<>>
  /\ current_height = StartHeight
  /\ metashrew_height = 0
  /\ actual_block_count = 0
  /\ target_height = 0
  /\ height = 0
  /\ new_height = 0
  /\ probe_arm = "none"
  /\ error = NoError
  /\ cache_size = 1
  /\ cache = <<>>
  /\ rt_height = 0
  /\ rt_hash = EmptyHash
  /\ rt_state = EmptyState
  /\ cdc_cache = <<>>
  /\ sent = <<>>
  /\ InversionIdle
  /\ HostIdle
  /\ LocksIdle
  /\ AdapterIdle
  /\ GuestIdle

\* WasmRuntime::process_block(rt_height + 1, hash) up to the call of the
\* entry point: height and hash are set, the store starts with
\* RuntimeState::default(); new_height > 0 is the height a replay stops at
BeginBlock ==
  /\ pc = "rt_idle"
  /\ rt_height < (IF new_height = 0 THEN MaxHeight ELSE new_height)
  /\ rt_height' = rt_height + 1
  /\ rt_hash' = chain[rt_height + 2]
  /\ view_result' = <<>>
  /\ host_call' = <<"none", "">>
  /\ host_ret' = 0
  /\ guest_buf' = [ok |-> TRUE, bytes |-> <<>>]
  /\ pc' = "rt_guest"
  /\ UNCHANGED <<upstream, now, config, control, inversion, side, current_height, locals, error,
                 cache, rt_state, cdc_cache, sent, sink_calls, guest_batch, emitted,
                 guest_kv>>

\* the guest calls view(name, input): __view, then __load when the length
\* returned is positive
GuestView ==
  /\ pc = "rt_guest"
  /\ \E name \in ViewNames, netOk \in BOOLEAN :
       LET data == UpstreamView(ViewHeight, name)
           ret == IF netOk THEN Len(data) ELSE -1
           result == IF netOk THEN data ELSE view_result
       IN /\ host_call' = <<"view", name>>
          /\ host_ret' = ret
          /\ view_result' = result
          /\ guest_buf' = IF ret <= 0 THEN [ok |-> FALSE, bytes |-> <<>>]
                          ELSE [ok |-> TRUE, bytes |-> Loaded(ret, result)]
  /\ UNCHANGED <<upstream, now, config, control, inversion, side, pc, current_height, locals,
                 error, cache, runtime, sent, sink_calls, guest_batch, emitted, guest_kv>>

\* the guest calls get_block_hash(): __block_hash, then __load when the
\* length returned is positive
GuestBlockHash ==
  /\ pc = "rt_guest"
  /\ host_call' = <<"block_hash", "">>
  /\ host_ret' = Len(rt_hash)
  /\ guest_buf' = [ok |-> TRUE,
                   bytes |-> IF Len(rt_hash) <= 0 THEN <<>>
                             ELSE Loaded(Len(rt_hash), view_result)]
  /\ UNCHANGED <<upstream, now, config, control, inversion, side, pc, current_height, locals,
                 error, cache, runtime, sent, sink_calls, guest_batch, emitted,
                 view_result, guest_kv>>

\* the guest calls get_state(k): __get_state returns 0, so None
GuestGetState ==
  /\ pc = "rt_guest"
  /\ \E k \in StateKeys : host_call' = <<"get_state", k>>
  /\ host_ret' = 0
  /\ guest_buf' = [ok |-> FALSE, bytes |-> <<>>]
  /\ UNCHANGED <<upstream, now, config, control, inversion, side, pc, current_height, locals,
                 error, cache, runtime, sent, sink_calls, guest_batch, emitted,
                 view_result, guest_kv>>

\* the guest calls set_state(k, v): __set_state returns 0 and keeps nothing
GuestSetState ==
  /\ pc = "rt_guest"
  /\ \E k \in StateKeys, v \in StateValues :
       /\ host_call' = <<"set_state", k>>
       /\ guest_kv' = (k :> v) @@ guest_kv
  /\ host_ret' = 0
  /\ guest_buf' = [ok |-> TRUE, bytes |-> <<>>]
  /\ UNCHANGED <<upstream, now, config, control, inversion, side, pc, current_height, locals,
                 error, cache, runtime, sent, sink_calls, guest_batch, emitted,
                 view_result>>

\* the guest calls delete_state(k): __delete_state returns 0, so false
GuestDeleteState ==
  /\ pc = "rt_guest"
  /\ \E k \in StateKeys :
       /\ host_call' = <<"delete_state", k>>
       /\ guest_kv' = [j \in DOMAIN guest_kv \ {k} |-> guest_kv[j]]
  /\ host_ret' = 0
  /\ guest_buf' = [ok |-> FALSE, bytes |-> <<>>]
  /\ UNCHANGED <<upstream, now, config, control, inversion, side, pc, current_height, locals,
                 error, cache, runtime, sent, sink_calls, guest_batch, emitted,
                 view_result>>

\* the entry point returns the pointer to its serialised messages, and
\* WasmRuntime::process_block returns the batch it builds
EndBlock ==
  /\ pc = "rt_guest"
  /\ guest_batch' \in GuestBatches
  /\ LET messages == BlockMessages(rt_height, rt_hash, now)
     IN /\ emitted' = Append(emitted, messages)
        /\ cdc_cache' = (rt_height :> messages) @@ cdc_cache
  /\ pc' = "rt_idle"
  /\ UNCHANGED <<upstream, now, config, control, inversion, side, current_height, locals, error,
                 cache, rt_height, rt_hash, rt_state, sent, sink_calls, view_result,
                 host_call, host_ret, guest_buf, guest_kv>>

\* the runtime is reset to an earlier height with the snapshot of that height
\* (set_current_height and set_state, as handle_reorg calls them); what the
\* guest had set since is no longer expected
RuntimeReset ==
  /\ pc = "rt_idle"
  /\ new_height = 0
  /\ \E t \in 0..(rt_height - 1) : rt_height' = t
  /\ new_height' = rt_height
  /\ rt_state' = EmptyState
  /\ guest_kv' = <<>>
  /\ UNCHANGED <<upstream, now, config, control, inversion, side, pc, current_height,
                 metashrew_height, actual_block_count, target_height, height, probe_arm,
                 error, cache, rt_hash, cdc_cache, sent, sink_calls, guest_batch, emitted,
                 view_result, host_call, host_ret, guest_buf>>

RuntimeNext ==
  \/ BeginBlock
  \/ GuestView
  \/ GuestBlockHash
  \/ GuestGetState
  \/ GuestSetState
  \/ GuestDeleteState
  \/ EndBlock
  \/ RuntimeReset
  \/ Tick

RuntimeSpec == RuntimeInit /\ [][RuntimeNext]_vars

\* the same block came out of process_block twice
SameBlock(a, b) ==
  /\ a[1].header.block_height = b[1].header.block_height
  /\ a[1].header.block_hash = b[1].header.block_hash

\* C22: processing block h, rolling back below h and processing h again with
\* the same upstream responses gives the same forward batch: the batch does
\* not depend on wall-clock time or on how often the block was processed.
C22_ReplayIsDeterministic ==
  \A i, j \in 1..Len(emitted) : SameBlock(emitted[i], emitted[j]) => emitted[i] = emitted[j]

\* C23: the batch the host returns for a height is exactly the list of
\* messages the transform's entry point produced, in order; an empty list
\* gives an empty batch.
C23_BatchIsWhatGuestEmitted ==
  (pc = "rt_idle" /\ emitted # <<>>) => emitted[Len(emitted)] = guest_batch

\* C24: a view call made while the runtime is at height h asks the upstream
\* at height h and hands the transform exactly the bytes the upstream
\* returned, also when they are empty.
C24_ViewPinnedAndExact ==
  (host_call[1] = "view" /\ host_ret >= 0) =>
     guest_buf = [ok |-> TRUE, bytes |-> UpstreamView(rt_height, host_call[2])]

\* the bytes the last host call produced
CallResult ==
  CASE host_call[1] = "view" -> UpstreamView(rt_height, host_call[2])
    [] host_call[1] = "block_hash" -> rt_hash
    [] host_call[1] = "get_state" -> guest_kv[host_call[2]]

\* C25: after a byte-producing host call (view, block_hash, get_state)
\* returned n > 0, the load that follows delivers exactly the n bytes of that
\* call's result, never those of an earlier call, never nothing.
C25_LoadDeliversLastResult ==
  (host_call[1] \in {"view", "block_hash", "get_state"} /\ host_ret > 0) =>
     (Len(guest_buf.bytes) = host_ret /\ guest_buf.bytes = CallResult)

\* C26: a value written with set_state(k, v) is returned by get_state(k) in
\* every later invocation until it is overwritten, deleted or unwound.
C26_StateReadsBackWrites ==
  (host_call[1] = "get_state" /\ host_call[2] \in DOMAIN guest_kv) =>
     guest_buf = [ok |-> TRUE, bytes |-> guest_kv[host_call[2]]]

\* ------------------------------------------------------------- lock check
\* BlockSynchronizer::process_block taken one await at a time, next to another
\* task that holds the handles get_cache() and get_runtime() returned.
\* pc: pb_idle (not in process_block), pb_lock_runtime (waiting for the
\* runtime lock), pb_transform (the transform executes), pb_lock_cache
\* (waiting for the cache lock), pb_add (add_block), pb_send (sink.send)
LockInit ==
  /\ chain = [i \in 1..(MaxHeight + 1) |-> <<0>>]
  /\ tip = MaxHeight
  /\ forks = 0
  /\ now = 0
  /\ pc = "pb_idle"
  /\ running = TRUE
  /\ stop_signalled = FALSE
  /\ sink_calls = <<>>
  /\ current_height = StartHeight
  /\ metashrew_height = MaxHeight
  /\ actual_block_count = MaxHeight
  /\ target_height = MaxHeight
  /\ height = 0
  /\ new_height = 0
  /\ probe_arm = "none"
  /\ error = NoError
  /\ cache_size \in 1..MaxCacheSize
  /\ cache = <<>>
  /\ rt_height = 0
  /\ rt_hash = EmptyHash
  /\ rt_state = EmptyState
  /\ cdc_cache = <<>>
  /\ sent = <<>>
  /\ InversionIdle
  /\ HostIdle
  /\ LocksIdle
  /\ AdapterIdle
  /\ GuestIdle

\* process_block(current_height + 1) up to self.runtime.lock(): the hash is
\* fetched and the metadata built
PbBegin ==
  /\ pc = "pb_idle"
  /\ current_height < target_height
  /\ GetBlockHash(current_height + 1).found
  /\ height' = current_height + 1
  /\ pc' = "pb_lock_runtime"
  /\ UNCHANGED <<upstream, now, config, control, inversion, host, adapter, guest, locks,
                 current_height, metashrew_height, actual_block_count, target_height,
                 new_height, probe_arm, error, cache, runtime, sent, sink_calls>>

\* let mut runtime = self.runtime.lock().await
PbLockRuntime ==
  /\ pc = "pb_lock_runtime"
  /\ runtime_lock = "free"
  /\ runtime_lock' = "driver"
  /\ pc' = "pb_transform"
  /\ UNCHANGED <<upstream, now, config, control, inversion, host, adapter, guest, cache_lock,
                 transform_result, current_height, locals, error, cache, runtime, sent,
                 sink_calls>>

\* runtime.process_block(height, hash)?: an error returns from process_block,
\* which drops the runtime guard
PbTransform ==
  /\ pc = "pb_transform"
  /\ LET hash == GetBlockHash(height).hash
     IN /\ rt_height' = height
        /\ rt_hash' = hash
        /\ \E wasmOk \in BOOLEAN :
             IF wasmOk
             THEN /\ cdc_cache' = (height :> BlockMessages(height, hash, now)) @@ cdc_cache
                  /\ transform_result' = Some(BlockMessages(height, hash, now))
                  /\ pc' = "pb_lock_cache"
                  /\ UNCHANGED <<runtime_lock, error>>
             ELSE /\ error' = "Runtime"
                  /\ runtime_lock' = "free"
                  /\ pc' = "failed"
                  /\ UNCHANGED <<cdc_cache, transform_result>>
  /\ UNCHANGED <<upstream, now, config, control, inversion, host, adapter, guest, cache_lock,
                 current_height, locals, cache, rt_state, sent, sink_calls>>

\* let mut cache = self.cache.lock().await
PbLockCache ==
  /\ pc = "pb_lock_cache"
  /\ cache_lock = "free"
  /\ cache_lock' = "driver"
  /\ pc' = "pb_add"
  /\ UNCHANGED <<upstream, now, config, control, inversion, host, adapter, guest, runtime_lock,
                 transform_result, current_height, locals, error, cache, runtime, sent,
                 sink_calls>>

\* cache.add_block(metadata, transform_result.clone())?
PbAdd ==
  /\ pc = "pb_add"
  /\ LET hash == GetBlockHash(height).hash
         metadata == [height |-> height, hash |-> HexEncode(hash),
                      timestamp |-> AsMillis(now)]
         add == AddBlock(cache, cache_size, metadata, transform_result[1], rt_state)
     IN IF add.ok
        THEN /\ cache' = add.cache
             /\ pc' = "pb_send"
             /\ UNCHANGED <<locks, error>>
        ELSE /\ error' = "BlockCache"
             /\ pc' = "failed"
             /\ runtime_lock' = "free"
             /\ cache_lock' = "free"
             /\ UNCHANGED <<cache, transform_result>>
  /\ UNCHANGED <<upstream, now, config, control, inversion, host, adapter, guest,
                 current_height, locals, runtime, sent, sink_calls>>

\* self.sink.send(transform_result.cdc_messages).await? and the return of
\* process_block, which drops both guards; run() then advances current_height
PbSend ==
  /\ pc = "pb_send"
  /\ sink_calls' = Append(sink_calls, "send")
  /\ runtime_lock' = "free"
  /\ cache_lock' = "free"
  /\ transform_result' = None
  /\ \E sinkOk \in BOOLEAN :
       IF sinkOk
       THEN /\ sent' = Append(sent, transform_result[1])
            /\ current_height' = HeightAfterBlock(height, [res |-> "ok"])
            /\ pc' = "pb_idle"
            /\ UNCHANGED error
       ELSE /\ error' = "Sink"
            /\ pc' = "failed"
            /\ UNCHANGED <<sent, current_height>>
  /\ UNCHANGED <<upstream, now, config, control, inversion, host, adapter, guest, locals,
                 cache, runtime>>

\* another task locks the handle it got from get_cache()
OtherLockCache ==
  /\ cache_lock = "free"
  /\ cache_lock' = "other"
  /\ UNCHANGED <<upstream, now, config, control, inversion, host, adapter, guest, runtime_lock,
                 transform_result, pc, current_height, locals, error, cache, runtime,
                 sent, sink_calls>>

\* while it holds the cache it calls BlockCache::rollback(target)
OtherRollbackCache ==
  /\ cache_lock = "other"
  /\ \E target \in 0..MaxHeight :
       /\ Rollback(cache, target) # cache
       /\ cache' = Rollback(cache, target)
  /\ UNCHANGED <<upstream, now, config, control, inversion, host, adapter, guest, locks, pc,
                 current_height, locals, error, runtime, sent, sink_calls>>

\* it drops the cache guard
OtherUnlockCache ==
  /\ cache_lock = "other"
  /\ cache_lock' = "free"
  /\ UNCHANGED <<upstream, now, config, control, inversion, host, adapter, guest, runtime_lock,
                 transform_result, pc, current_height, locals, error, cache, runtime,
                 sent, sink_calls>>

\* another task locks the handle it got from get_runtime()
OtherLockRuntime ==
  /\ runtime_lock = "free"
  /\ runtime_lock' = "other"
  /\ UNCHANGED <<upstream, now, config, control, inversion, host, adapter, guest, cache_lock,
                 transform_result, pc, current_height, locals, error, cache, runtime,
                 sent, sink_calls>>

\* it drops the runtime guard
OtherUnlockRuntime ==
  /\ runtime_lock = "other"
  /\ runtime_lock' = "free"
  /\ UNCHANGED <<upstream, now, config, control, inversion, host, adapter, guest, cache_lock,
                 transform_result, pc, current_height, locals, error, cache, runtime,
                 sent, sink_calls>>

LockNext ==
  \/ PbBegin
  \/ PbLockRuntime
  \/ PbTransform
  \/ PbLockCache
  \/ PbAdd
  \/ PbSend
  \/ OtherLockCache
  \/ OtherRollbackCache
  \/ OtherUnlockCache
  \/ OtherLockRuntime
  \/ OtherUnlockRuntime

LockSpec == LockInit /\ [][LockNext]_vars

\* process_block is between the start of the transform and the return of send
InCriticalSection == pc \in {"pb_transform", "pb_lock_cache", "pb_add", "pb_send"}

\* C27: from the start of a block's transform execution until the send of its
\* batch returns, the driver holds both the runtime lock and the cache lock, so
\* no other holder of the handles of get_cache or get_runtime has either.
C27_DriverHoldsBothLocks ==
  InCriticalSection => (runtime_lock = "driver" /\ cache_lock = "driver")

\* ---------------------------------------------------------- adapter check
\* MemoryMetashrewAdapter (adapters.rs): every adapter value is a handle on an
\* AdapterState cell; clone() copies the handle, deep_copy() the cell.
BlockData == {7, 8}
BlockLists == {<<>>, <<7>>, <<7, 8>>}
SetHashes == {<<9>>}
ViewKeys == {<<"view", <<1>>, Some(1)>>}
ViewResults == {<<3>>}

\* advance_block(None): 32 bytes, the height followed by zeroes
HeightHash(h) == <<0, h>>

\* advance_block(Some(data)): DefaultHasher over the height and the data
DataHash(h, data) == <<1, h, data>>

\* simulate_reorg: DefaultHasher over the height, the data and the index
ReorgHash(h, data, i) == <<2, h, data, i>>

\* HashMap::insert
Insert(m, k, v) == (k :> v) @@ m

\* HashMap::retain(|&height, _| height <= fork_height)
Retain(m, fork_height) == [k \in {j \in DOMAIN m : j <= fork_height} |-> m[k]]

\* (variant: the blocks above the fork height stay stored)
SimulateReorgKeepsAll(st, fork_height, new_blocks) ==
  IF fork_height > st.height
  THEN [ok |-> FALSE, state |-> st, ret |-> <<>>]
  ELSE
    LET n == Len(new_blocks)
        added == [h \in (fork_height + 1)..(fork_height + n) |->
                    ReorgHash(h, new_blocks[h - fork_height], h - fork_height - 1)]
    IN [ok |-> TRUE,
        state |-> [st EXCEPT !.block_hashes = added @@ st.block_hashes,
                             !.height = fork_height + n],
        ret |-> <<fork_height + n,
                  IF n = 0 THEN <<>> ELSE added[fork_height + n]>>]

\* (variant: the fork height is not compared with the current height)
SimulateReorgUnchecked(st, fork_height, new_blocks) ==
  LET n == Len(new_blocks)
      kept == Retain(st.block_hashes, fork_height)
      added == [h \in (fork_height + 1)..(fork_height + n) |->
                  ReorgHash(h, new_blocks[h - fork_height], h - fork_height - 1)]
  IN [ok |-> TRUE,
      state |-> [st EXCEPT !.block_hashes = added @@ kept,
                           !.height = fork_height + n],
      ret |-> <<fork_height + n,
                IF n = 0 THEN <<>> ELSE added[fork_height + n]>>]

\* BlockchainSimulatorLike::simulate_reorg on the state st: whether it returned
\* Ok, the state it leaves and the (height, last hash) it returns
SimulateReorg(st, fork_height, new_blocks) ==
  IF fork_height > st.height
  THEN [ok |-> FALSE, state |-> st, ret |-> <<>>]
  ELSE
    LET n == Len(new_blocks)
        kept == Retain(st.block_hashes, fork_height)
        added == [h \in (fork_height + 1)..(fork_height + n) |->
                    ReorgHash(h, new_blocks[h - fork_height], h - fork_height - 1)]
    IN [ok |-> TRUE,
        state |-> [st EXCEPT !.block_hashes = added @@ kept,
                             !.height = fork_height + n],
        ret |-> <<fork_height + n,
                  IF n = 0 THEN <<>> ELSE added[fork_height + n]>>]

\* (variant: the copy is another handle on the same state)
DeepCopyAliased(cs, c) == [cells |-> cs, cell |-> c]

\* deep_copy(): a new cell holding clones of the fields of cell c
DeepCopy(cs, c) ==
  [cells |-> Append(cs, [cs[c] EXCEPT !.identifier = Append(@, "-copy")]),
   cell |-> Len(cs) + 1]

\* the state an adapter value sees
View(a) == cells[handles[a]]

AdapterInit ==
  /\ chain = << <<0>> >>
  /\ tip = 0
  /\ forks = 0
  /\ now = 0
  /\ pc = "adapter"
  /\ running = FALSE
  /\ stop_signalled = FALSE
  /\ sink_calls = <<>>
  /\ current_height = StartHeight
  /\ metashrew_height = 0
  /\ actual_block_count = 0
  /\ target_height = 0
  /\ height = 0
  /\ new_height = 0
  /\ probe_arm = "none"
  /\ error = NoError
  /\ cache_size = 1
  /\ cache = <<>>
  /\ rt_height = 0
  /\ rt_hash = EmptyHash
  /\ rt_state = EmptyState
  /\ cdc_cache = <<>>
  /\ sent = <<>>
  /\ InversionIdle
  /\ HostIdle
  /\ LocksIdle
  /\ AdapterIdle
  /\ GuestIdle

\* a call op on the adapter value a that leaves cell handles[a] in state st
AdapterCall(call, st) ==
  /\ pc = "adapter"
  /\ adapter_ops < MaxAdapterOps
  /\ adapter_ops' = adapter_ops + 1
  /\ cells' = [cells EXCEPT ![handles[call.on]] = st]
  /\ adapter_call' = call @@ [before |-> cells]
  /\ UNCHANGED <<handles, upstream, now, config, control, inversion, host, locks, guest, pc,
                 current_height, locals, error, cache, runtime, sent, sink_calls>>

\* set_height(h)
SetHeight ==
  \E a \in DOMAIN handles, h \in 0..MaxAdapterHeight :
    AdapterCall([op |-> "set_height", on |-> a], [View(a) EXCEPT !.height = h])

\* set_block_hash(h, hash)
SetBlockHash ==
  \E a \in DOMAIN handles, h \in 0..MaxAdapterHeight, hash \in SetHashes :
    AdapterCall([op |-> "set_block_hash", on |-> a],
                [View(a) EXCEPT !.block_hashes = Insert(@, h, hash)])

\* set_view_result(view_name, params, height, result)
SetViewResult ==
  \E a \in DOMAIN handles, key \in ViewKeys, result \in ViewResults :
    AdapterCall([op |-> "set_view_result", on |-> a],
                [View(a) EXCEPT !.view_results = Insert(@, key, result)])

\* clear()
Clear ==
  \E a \in DOMAIN handles :
    AdapterCall([op |-> "clear", on |-> a],
                [View(a) EXCEPT !.height = 0, !.block_hashes = <<>>,
                                !.view_results = <<>>])

\* advance_block(block_data)
AdvanceBlock ==
  \E a \in DOMAIN handles, block_data \in {None} \cup {Some(x) : x \in BlockData} :
    LET next_height == View(a).height + 1
        hash == IF block_data = None THEN HeightHash(next_height)
                ELSE DataHash(next_height, block_data[1])
    IN /\ next_height <= MaxAdapterHeight
       /\ AdapterCall([op |-> "advance_block", on |-> a, ret |-> <<next_height, hash>>],
                      [View(a) EXCEPT !.height = next_height,
                                      !.block_hashes = Insert(@, next_height, hash)])

\* simulate_reorg(fork_height, new_blocks)
SimulateReorgCall ==
  \E a \in DOMAIN handles, fork_height \in 0..(MaxAdapterHeight + 1),
     new_blocks \in BlockLists :
    LET r == SimulateReorg(View(a), fork_height, new_blocks)
    IN /\ fork_height + Len(new_blocks) <= MaxAdapterHeight + 1
       /\ AdapterCall([op |-> "simulate_reorg", on |-> a, fork_height |-> fork_height,
                       new_blocks |-> new_blocks, ok |-> r.ok, ret |-> r.ret],
                      r.state)

\* let clone = original.clone()
Clone ==
  /\ pc = "adapter"
  /\ "clone" \notin DOMAIN handles
  /\ handles' = ("clone" :> handles["original"]) @@ handles
  /\ adapter_call' = [op |-> "clone", on |-> "original", before |-> cells]
  /\ UNCHANGED <<cells, adapter_ops, upstream, now, config, control, inversion, host,
                 locks, guest, pc, current_height, locals, error, cache, runtime, sent,
                 sink_calls>>

\* let copy = a.deep_copy()
DeepCopyCall ==
  /\ pc = "adapter"
  /\ "copy" \notin DOMAIN handles
  /\ \E a \in DOMAIN handles :
       LET r == DeepCopy(cells, handles[a])
       IN /\ cells' = r.cells
          /\ handles' = ("copy" :> r.cell) @@ handles
          /\ adapter_call' = [op |-> "deep_copy", on |-> a, before |-> cells]
  /\ UNCHANGED <<adapter_ops, upstream, now, config, control, inversion, host, locks, guest, pc,
                 current_height, locals, error, cache, runtime, sent, sink_calls>>

AdapterNext ==
  \/ SetHeight
  \/ SetBlockHash
  \/ SetViewResult
  \/ Clear
  \/ AdvanceBlock
  \/ SimulateReorgCall
  \/ Clone
  \/ DeepCopyCall

AdapterSpec == AdapterInit /\ [][AdapterNext]_vars

\* the last call was simulate_reorg; the state it was made on, and the state now
ReorgCalled == adapter_call.op = "simulate_reorg"
ReorgBefore == adapter_call.before[handles[adapter_call.on]]
ReorgAfter == cells[handles[adapter_call.on]]

\* C28: simulate_reorg(f, blocks) with f <= height leaves the hash of every
\* height <= f unchanged, removes every hash above f, stores a hash at exactly
\* the heights f+1 .. f+len(blocks), sets the height to f+len(blocks) and
\* returns that height.
C28_ReorgFrame ==
  (ReorgCalled /\ adapter_call.fork_height <= ReorgBefore.height) =>
    LET f == adapter_call.fork_height
        n == Len(adapter_call.new_blocks)
        old == ReorgBefore.block_hashes
        new == ReorgAfter.block_hashes
    IN /\ adapter_call.ok
       /\ DOMAIN new = {h \in DOMAIN old : h <= f} \cup ((f + 1)..(f + n))
       /\ \A h \in DOMAIN old : h <= f => new[h] = old[h]
       /\ ReorgAfter.height = f + n
       /\ adapter_call.ret[1] = f + n

\* a reorg below the tip, on an adapter that stores a hash at or below the
\* fork height and one above the new tip
C28_Witness ==
  /\ ReorgCalled
  /\ adapter_call.fork_height < ReorgBefore.height
  /\ \E h \in DOMAIN ReorgBefore.block_hashes : h <= adapter_call.fork_height
  /\ \E h \in DOMAIN ReorgBefore.block_hashes :
       h > adapter_call.fork_height + Len(adapter_call.new_blocks)

\* C29: simulate_reorg(f, blocks) with f greater than the current height
\* returns an error and leaves the height, the block hashes and the view
\* results unchanged.
C29_ReorgAboveHeightRejected ==
  (ReorgCalled /\ adapter_call.fork_height > ReorgBefore.height) =>
    (~adapter_call.ok /\ cells = adapter_call.before)

\* a rejected reorg with blocks to add, on an adapter that stores hashes and
\* view results
C29_Witness ==
  /\ ReorgCalled
  /\ adapter_call.fork_height > ReorgBefore.height
  /\ adapter_call.new_blocks # <<>>
  /\ ReorgBefore.block_hashes # <<>>
  /\ ReorgBefore.view_results # <<>>

Mutators == {"set_height", "set_block_hash", "set_view_result", "clear",
             "advance_block", "simulate_reorg"}

\* the height, hashes and view results of a state
Data(st) == <<st.height, st.block_hashes, st.view_results>>

\* C30: a clone shares state with the original; a deep copy starts with equal
\* height, hashes and view results and is isolated afterwards: no operation
\* on the original changes the copy and none on the copy changes the original.
C30_CloneSharesDeepCopyIsolates ==
  /\ "clone" \in DOMAIN handles => View("clone") = View("original")
  /\ adapter_call.op = "deep_copy" => Data(View("copy")) = Data(View(adapter_call.on))
  /\ ("copy" \in DOMAIN handles /\ adapter_call.op \in Mutators) =>
       IF adapter_call.on = "copy"
       THEN View("original") = adapter_call.before[handles["original"]]
       ELSE View("copy") = adapter_call.before[handles["copy"]]

\* a call on the original after a clone and a deep copy were made, which the
\* clone sees and the copy does not
C30_Witness ==
  /\ {"clone", "copy"} \subseteq DOMAIN handles
  /\ adapter_call.op \in Mutators
  /\ adapter_call.on = "original"
  /\ View("original") # adapter_call.before[handles["original"]]
  /\ Data(View("copy")) # Data(View("original"))

\* ------------------------------------------------- driver and cache heights
\* the highest height held in the cache
CacheTip == cache[Len(cache)].metadata.height

\* run() is at the top of its loop
IterationBoundary == pc = "poll"

\* C31: at every iteration boundary of the driver loop, once at least one
\* block has been processed, current_height equals the cache tip.
C31_HeightIsCacheTip ==
  (IterationBoundary /\ cache # <<>>) => current_height = CacheTip

\* C32: every cache append the driver issues is for height cache-tip + 1 or
\* goes into an empty cache: no add_block of the driver is ever rejected for
\* leaving a gap or re-adding a height.
C32_AppendsAreContiguous == error # "BlockCache"

\* ------------------------------------------------------- failed reorg probe
\* the highest height below cur whose hash the upstream serves, 0 if none
HighestServedBelow(cur) ==
  LET serving == {t \in 1..(cur - 1) : GetBlockHash(t).found}
  IN IF serving = {} THEN 0 ELSE CHOOSE t \in serving : \A u \in serving : u <= t

\* the probe of this iteration cannot fetch the hash at current_height
ProbeCannotFetch ==
  /\ pc = "probe"
  /\ GetBlockAtHeight(cache, current_height) # 0
  /\ ~GetBlockHash(current_height).found

\* C34: when the hash at current_height cannot be fetched during the reorg
\* probe, the driver unwinds to the highest height below current_height whose
\* hash the upstream still serves, or to genesis if none does, for every
\* current_height >= 1.
C34_FailedProbeUnwinds ==
  [][(ProbeCannotFetch /\ current_height >= 1) =>
       \/ pc' = "failed"
       \/ pc' = "replay" /\ new_height' = HighestServedBelow(current_height)]_vars

\* C35: if the send of the inverse batch fails during an unwind, the unwind has
\* no effect: the cache, current_height and the runtime's working height and
\* state are as they were before the unwind started.
C35_FailedInverseSendHasNoEffect ==
  [][(pc = "probe" /\ error' = "Sink") =>
       /\ cache' = cache
       /\ current_height' = current_height
       /\ rt_height' = rt_height
       /\ rt_state' = rt_state]_vars

\* ------------------------------------------------------------ inverted once
\* the operation of the last message sent so far for the row key, "none" when
\* no message was sent for it
LastOperationOn(key) ==
  LET all == Flatten(sent)
      on == {i \in 1..Len(all) : all[i].payload.key = key}
  IN IF on = {} THEN "none"
     ELSE all[CHOOSE i \in on : \A j \in on : j <= i].payload.operation

\* this step is an unwind that sends a batch of inverse messages
UnwindSends == pc = "probe" /\ Len(sent') = Len(sent) + 1

\* the height of the block a message of the runtime's batches is about
BlockOf(message) == message.payload.key[2]

\* C33: every forward batch sent to the sink is inverted at most once, and
\* only while its block is still the cached block at that height: each inverse
\* message an unwind sends undoes a row whose last sent message is the Create
\* of the block cached at that height, the batch of that block is the one in
\* the runtime's per-height CDC cache, and no row is undone twice in one unwind.
C33_InvertedAtMostOnce ==
  [][UnwindSends =>
       LET batch == sent'[Len(sent')]
       IN \A i \in 1..Len(batch) :
            LET h == BlockOf(batch[i])
            IN /\ batch[i].payload.operation = "Delete"
               /\ LastOperationOn(batch[i].payload.key) = "Create"
               /\ GetBlockAtHeight(cache, h) # 0
               /\ CachedBatch(h) = cdc_cache[h]
               /\ batch[i].payload.before = cdc_cache[h][1].payload.after
               /\ \A j \in 1..Len(batch) : BlockOf(batch[j]) = h => j = i]_vars

\* an unwind has sent the inverses of two blocks in one batch
C33_Witness ==
  /\ pc = "replay"
  /\ sent # <<>>
  /\ Len(sent[Len(sent)]) = 2
  /\ sent[Len(sent)][1].payload.operation = "Delete"

\* ---------------------------------------------------- failed process_block
\* this step is a process_block call in which WasmRuntime::process_block
\* returned an error
TransformFailed == pc \in {"fwd", "disc", "replay"} /\ error' = "Runtime"

\* C36: a failed WasmRuntime::process_block leaves the runtime as it was
\* before the call: current height, current hash, state and the per-height
\* CDC cache are unchanged.
C36_FailedTransformLeavesRuntime ==
  [][TransformFailed => UNCHANGED <<rt_height, rt_hash, rt_state, cdc_cache>>]_vars

\* --------------------------------------------------------- transform module
\* The module declare_transform!(MinimalTransform) generates (debshrew-runtime
\* lib.rs, debshrew-minimal lib.rs) and the SimpleCdcProcessor of
\* tests/reorg_focused_test.rs. pc: guest_transform (the entry points of the
\* module are called), guest_processor (the processor is called)
HashBytes == {0, 1}

\* format!("{:02x}", byte)
FormatHex(byte) == <<"02x", byte>>

\* MinimalTransform::default()
DefaultTransform == [block_tracker |-> <<>>, last_height |-> None]

\* HashMap::remove of a set of keys
Remove(m, keys) == [k \in DOMAIN m \ keys |-> m[k]]

\* what the view "blocktracker" can hand to the transform at height h: a
\* failure, a result one byte short, or one byte per height 0..h
TrackerViews(h) ==
  {[ok |-> FALSE, data |-> <<>>], [ok |-> TRUE, data |-> [i \in 1..h |-> 0]]}
    \cup {[ok |-> TRUE, data |-> [i \in 1..(h + 1) |-> b]] : b \in HashBytes}

\* the after-image of the row of a block
BlockRow(h, hash_byte, tracker_length) ==
  [height |-> h, hash_byte |-> hash_byte, tracker_length |-> tracker_length]

\* the Create message of a block
CreateMessage(h, hash_byte, tracker_length, t) ==
  [ header |-> [ source |-> "debshrew-minimal", timestamp |-> AsMillis(t),
                 block_height |-> h, block_hash |-> FormatHex(hash_byte),
                 transaction_id |-> None ],
    payload |-> [ operation |-> "Create", table |-> "blocks", key |-> HeightToString(h),
                  before |-> None,
                  after |-> Some(BlockRow(h, hash_byte, tracker_length)) ] ]

\* MinimalTransform::process_block at height h with the view result viewed
TransformProcessBlock(self, h, viewed, t) ==
  IF ~viewed.ok \/ Len(viewed.data) # h + 1
  THEN [ok |-> FALSE, self |-> self, messages |-> <<>>]
  ELSE
    LET block_hash_byte == viewed.data[h + 1]
    IN [ok |-> TRUE,
        self |-> [block_tracker |-> (h :> block_hash_byte) @@ self.block_tracker,
                  last_height |-> Some(h)],
        messages |-> <<CreateMessage(h, block_hash_byte, Len(viewed.data), t)>>]

\* the heights lo..hi, lowest first
RECURSIVE Ascending(_, _)
Ascending(lo, hi) == IF lo > hi THEN <<>> ELSE <<lo>> \o Ascending(lo + 1, hi)

\* the Delete message MinimalTransform::rollback builds for a tracked height
DeleteMessage(h, hash_byte, target, t) ==
  [ header |-> [ source |-> "debshrew-minimal", timestamp |-> AsMillis(t),
                 block_height |-> target, block_hash |-> FormatHex(hash_byte),
                 transaction_id |-> None ],
    payload |-> [ operation |-> "Delete", table |-> "blocks", key |-> HeightToString(h),
                  before |-> Some(BlockRow(h, hash_byte, h + 1)), after |-> None ] ]

\* the heights MinimalTransform::rollback visits, in the order it visits them
RollbackHeights(self, target) ==
  IF self.last_height = None THEN <<>>
  ELSE SelectSeq(Ascending(target + 1, self.last_height[1]),
                 LAMBDA h : h \in DOMAIN self.block_tracker)

\* (variant: the heights are visited from the highest down)
TransformRollbackDescending(self, target, t) ==
  LET heights == Reverse(RollbackHeights(self, target))
  IN [ok |-> TRUE,
      self |-> [block_tracker |->
                  Remove(self.block_tracker, {heights[i] : i \in 1..Len(heights)}),
                last_height |-> Some(target)],
      messages |-> [i \in 1..Len(heights) |->
                      DeleteMessage(heights[i], self.block_tracker[heights[i]], target, t)]]

\* MinimalTransform::rollback to the height target
TransformRollback(self, target, t) ==
  LET heights == RollbackHeights(self, target)
  IN [ok |-> TRUE,
      self |-> [block_tracker |->
                  Remove(self.block_tracker, {heights[i] : i \in 1..Len(heights)}),
                last_height |-> Some(target)],
      messages |-> [i \in 1..Len(heights) |->
                      DeleteMessage(heights[i], self.block_tracker[heights[i]], target, t)]]

\* <$transform>::load(): the persisted instance, or a default one that is
\* persisted at once
Load(inst) ==
  IF inst # None THEN [self |-> inst[1], instance |-> inst]
  ELSE [self |-> DefaultTransform, instance |-> Some(DefaultTransform)]

\* (variant: a failure persists a default instance)
EntryPointResetsOnError(inst, r) ==
  IF r.ok
  THEN [ret |-> 1, instance |-> Some(r.self), messages |-> r.messages]
  ELSE [ret |-> -1, instance |-> Some(DefaultTransform), messages |-> <<>>]

\* the rest of an exported entry point once the transform returned r on the
\* loaded instance: save and a pointer to the serialised messages, or -1
EntryPoint(inst, r) ==
  IF r.ok
  THEN [ret |-> 1, instance |-> Some(r.self), messages |-> r.messages]
  ELSE [ret |-> -1, instance |-> Load(inst).instance, messages |-> <<>>]

GuestInit ==
  /\ chain = << <<0>> >>
  /\ tip = 0
  /\ forks = 0
  /\ now = 0
  /\ pc \in {"guest_transform", "guest_processor"}
  /\ running = FALSE
  /\ stop_signalled = FALSE
  /\ sink_calls = <<>>
  /\ current_height = StartHeight
  /\ metashrew_height = 0
  /\ actual_block_count = 0
  /\ target_height = 0
  /\ height = 0
  /\ new_height = 0
  /\ probe_arm = "none"
  /\ error = NoError
  /\ cache_size = 1
  /\ cache = <<>>
  /\ rt_height = 0
  /\ rt_hash = EmptyHash
  /\ rt_state = EmptyState
  /\ cdc_cache = <<>>
  /\ sent = <<>>
  /\ InversionIdle
  /\ HostIdle
  /\ LocksIdle
  /\ AdapterIdle
  /\ GuestIdle

\* what every call on the transform module or the processor leaves alone
GuestFrame ==
  /\ guest_ops < MaxGuestOps
  /\ guest_ops' = guest_ops + 1
  /\ UNCHANGED <<upstream, now, config, control, inversion, host, locks, adapter, pc,
                 current_height, locals, error, cache, runtime, sent, sink_calls>>

\* the exported process_block() with the host at height h
EntryProcessBlock ==
  /\ pc = "guest_transform"
  /\ \E h \in 0..MaxGuestHeight :
       \E viewed \in TrackerViews(h) :
         LET r == TransformProcessBlock(Load(instance).self, h, viewed, now)
             e == EntryPoint(instance, r)
         IN /\ instance' = e.instance
            /\ guest_call' = [op |-> "process_block", arg |-> h, before |-> instance,
                              failed |-> ~r.ok, ret |-> e.ret, messages |-> e.messages]
            /\ created' = IF r.ok THEN (h :> r.messages[1]) @@ created ELSE created
  /\ UNCHANGED processor
  /\ GuestFrame

\* the exported rollback() with the host at height target
EntryRollback ==
  /\ pc = "guest_transform"
  /\ \E target \in 0..MaxGuestHeight :
       LET r == TransformRollback(Load(instance).self, target, now)
           e == EntryPoint(instance, r)
       IN /\ instance' = e.instance
          /\ guest_call' = [op |-> "rollback", arg |-> target, before |-> instance,
                            failed |-> ~r.ok, ret |-> e.ret, messages |-> e.messages]
  /\ UNCHANGED <<processor, created>>
  /\ GuestFrame

\* block data handed to SimpleCdcProcessor::process_block
BlockDatas == {<<1>>, <<255, 3>>}

\* TestUtils::simple_hash: the wrapping sum of the bytes
RECURSIVE SimpleHash(_)
SimpleHash(data) == IF data = <<>> THEN 0 ELSE (Head(data) + SimpleHash(Tail(data))) % 256

\* SimpleCdcProcessor::new()
NewProcessor == [processed_height |-> None, cdc_history |-> <<>>, hashes |-> <<>>]

\* SimpleCdcProcessor::process_block(h, block_data); cdc_history[h + 1] is
\* the entry of the Vec at index h
ProcessorProcessBlock(p, h, block_data, t) ==
  LET hash == SimpleHash(block_data)
      hashes == (h :> hash) @@ p.hashes
      blocktracker_data == SelectSeq(Ascending(0, h), LAMBDA k : k \in DOMAIN hashes)
      cdc_messages == <<CreateMessage(h, hash, Len(blocktracker_data), t)>>
      padded == IF Len(p.cdc_history) > h THEN p.cdc_history
                ELSE p.cdc_history \o [i \in 1..(h + 1 - Len(p.cdc_history)) |-> <<>>]
  IN [self |-> [processed_height |-> Some(h),
                cdc_history |-> [padded EXCEPT ![h + 1] = cdc_messages],
                hashes |-> hashes],
      messages |-> cdc_messages]

\* the inverse SimpleCdcProcessor::process_rollback builds for a message
ProcessorInverse(original_message, target, t) ==
  [ header |-> [ source |-> original_message.header.source, timestamp |-> AsMillis(t),
                 block_height |-> target,
                 block_hash |-> original_message.header.block_hash,
                 transaction_id |-> None ],
    payload |-> [ operation |-> "Delete", table |-> original_message.payload.table,
                  key |-> original_message.payload.key,
                  before |-> original_message.payload.after, after |-> None ] ]

\* SimpleCdcProcessor::process_rollback(target)
ProcessorRollback(p, target, t) ==
  LET heights == IF p.processed_height = None THEN <<>>
                 ELSE Ascending(target + 1, p.processed_height[1])
      recorded == SelectSeq(heights, LAMBDA h : h + 1 <= Len(p.cdc_history))
      inverses == [i \in 1..Len(recorded) |->
                     [j \in 1..Len(p.cdc_history[recorded[i] + 1]) |->
                        ProcessorInverse(p.cdc_history[recorded[i] + 1][j], target, t)]]
  IN [self |-> [p EXCEPT
                  !.processed_height = Some(target),
                  !.cdc_history = [i \in 1..Len(p.cdc_history) |->
                                     IF \E k \in 1..Len(recorded) : recorded[k] + 1 = i
                                     THEN <<>> ELSE p.cdc_history[i]]],
      messages |-> Flatten(inverses)]

\* processor.process_block(h, block_data)
ProcessorProcess ==
  /\ pc = "guest_processor"
  /\ \E h \in 0..MaxGuestHeight, block_data \in BlockDatas :
       LET r == ProcessorProcessBlock(processor, h, block_data, now)
       IN /\ processor' = r.self
          /\ guest_call' = [op |-> "process_block", arg |-> h, before |-> processor,
                            failed |-> FALSE, ret |-> 1, messages |-> r.messages]
          /\ created' = (h :> r.messages[1]) @@ created
  /\ UNCHANGED instance
  /\ GuestFrame

\* processor.process_rollback(target)
ProcessorUnwind ==
  /\ pc = "guest_processor"
  /\ \E target \in 0..MaxGuestHeight :
       LET r == ProcessorRollback(processor, target, now)
       IN /\ processor' = r.self
          /\ guest_call' = [op |-> "rollback", arg |-> target, before |-> processor,
                            failed |-> FALSE, ret |-> 1, messages |-> r.messages]
  /\ UNCHANGED <<instance, created>>
  /\ GuestFrame

GuestNext ==
  \/ EntryProcessBlock
  \/ EntryRollback
  \/ ProcessorProcess
  \/ ProcessorUnwind

GuestSpec == GuestInit /\ [][GuestNext]_vars

\* C38: the persisted transform instance is replaced only after the
\* transform's process_block or rollback succeeded: when it returns an error
\* the entry point returns -1 and the persisted instance is exactly what it
\* was before the call.
C38_FailureKeepsInstance ==
  (pc = "guest_transform" /\ guest_call.op # "none" /\ guest_call.failed) =>
     (guest_call.ret = -1 /\ instance = guest_call.before)

\* C38, amended: when the transform returns an error the entry point returns
\* -1 and load() yields exactly the instance it yielded before the call; a
\* call that found no persisted instance leaves the default instance persisted.
C38_FailureKeepsLoadedInstance ==
  (pc = "guest_transform" /\ guest_call.op # "none" /\ guest_call.failed) =>
     /\ guest_call.ret = -1
     /\ Load(instance).self = Load(guest_call.before).self
     /\ instance = IF guest_call.before = None THEN Some(DefaultTransform)
                   ELSE guest_call.before

\* a failed process_block on a module whose persisted instance tracks a block
C38_Witness ==
  /\ pc = "guest_transform"
  /\ guest_call.op = "process_block"
  /\ guest_call.failed
  /\ guest_call.before # None
  /\ guest_call.before[1].block_tracker # <<>>

\* the heights a transform instance, or a processor, has a record for
TrackedHeights(st) == DOMAIN st.block_tracker
RecordedHeights(p) == {h \in 0..(Len(p.cdc_history) - 1) : p.cdc_history[h + 1] # <<>>}

\* the messages are one Delete per height t+1..n, lowest height first, each
\* undoing the Create last emitted for its height
DeletesAscending(messages, t, n) ==
  /\ Len(messages) = n - t
  /\ \A i \in 1..Len(messages) :
       /\ messages[i].payload.operation = "Delete"
       /\ messages[i].payload.key = HeightToString(t + i)
       /\ messages[i].payload.before = created[t + i].payload.after
       /\ messages[i].payload.before # None
       /\ messages[i].payload.after = None

\* the last call was a rollback to t on a transform instance that had
\* processed exactly the heights 0..n, t <= n
TransformRolledBack(t, n) ==
  /\ pc = "guest_transform"
  /\ guest_call.op = "rollback"
  /\ guest_call.arg = t
  /\ guest_call.before # None
  /\ guest_call.before[1].last_height = Some(n)
  /\ TrackedHeights(guest_call.before[1]) = 0..n

\* the same for the processor of the reorg test
ProcessorRolledBack(t, n) ==
  /\ pc = "guest_processor"
  /\ guest_call.op = "rollback"
  /\ guest_call.arg = t
  /\ guest_call.before.processed_height = Some(n)
  /\ Len(guest_call.before.cdc_history) = n + 1
  /\ RecordedHeights(guest_call.before) = 0..n

\* C39: rolling back to t after heights 0..n were processed yields exactly
\* n-t messages, one Delete per height t+1..n in ascending height order, each
\* with key equal to that height, before equal to the after-image of the Create
\* emitted for that height and after none; the recorded state for heights <= t
\* is unchanged, nothing remains recorded above t, and the last processed
\* height becomes t. This holds for MinimalTransform::rollback and for
\* SimpleCdcProcessor::process_rollback.
C39_RollbackDeletesAscending ==
  \A n \in 0..MaxGuestHeight : \A t \in 0..n :
    /\ TransformRolledBack(t, n) =>
         /\ guest_call.ret >= 0
         /\ DeletesAscending(guest_call.messages, t, n)
         /\ TrackedHeights(instance[1]) = 0..t
         /\ \A h \in 0..t :
              instance[1].block_tracker[h] = guest_call.before[1].block_tracker[h]
         /\ instance[1].last_height = Some(t)
    /\ ProcessorRolledBack(t, n) =>
         /\ DeletesAscending(guest_call.messages, t, n)
         /\ RecordedHeights(processor) = 0..t
         /\ \A h \in 0..t :
              processor.cdc_history[h + 1] = guest_call.before.cdc_history[h + 1]
         /\ processor.hashes = guest_call.before.hashes
         /\ processor.processed_height = Some(t)

\* the transform rolled back from height 2 to height 0
C39_Witness ==
  /\ TransformRolledBack(0, 2)
  /\ Len(guest_call.messages) = 2
  /\ created[1].payload.after # created[2].payload.after

\* ------------------------------------------------------- chain simulation
\* a MemoryMetashrewAdapter driven through BlockchainSimulatorLike only:
\* advance_block and simulate_reorg calls on a new adapter
SimulatorNext ==
  \/ AdvanceBlock
  \/ SimulateReorgCall

SimulatorSpec == AdapterInit /\ [][SimulatorNext]_vars

\* C40: starting from MemoryMetashrewAdapter::new(), after any sequence of
\* advance_block and successful simulate_reorg calls the stored block hashes
\* are exactly those of heights 1..height (block_count() equals height), and
\* each advance_block raises height by exactly one and returns the new height
\* with the hash stored for it.
C40_HashesAreOneToHeight ==
  /\ DOMAIN View("original").block_hashes = 1..View("original").height
  /\ Cardinality(DOMAIN View("original").block_hashes) = View("original").height
  /\ adapter_call.op = "advance_block" =>
       /\ View("original").height = adapter_call.before[1].height + 1
       /\ adapter_call.ret[1] = View("original").height
       /\ adapter_call.ret[2] = View("original").block_hashes[View("original").height]

\* an advance_block on top of a block that a reorg put in place
C40_Witness ==
  /\ adapter_call.op = "advance_block"
  /\ View("original").height = 2
  /\ View("original").block_hashes[1] = ReorgHash(1, 7, 0)
  /\ handles = [a \in {"original"} |-> 1]

\* ------------------------------------------------------- driver lock order
\* The driver alone, one await at a time: process_block as in the lock check,
\* and handle_reorg with its replay loop. pc inside handle_reorg:
\* hr_lock_cache (waiting for the cache lock), hr_find (common ancestor and
\* snapshot), hr_lock_runtime (waiting for the runtime lock), hr_unwind
\* (inverses, runtime reset, send), hr_relock_cache (waiting for the cache
\* lock again), hr_loop (head of the replay loop), hr_reacquire (waiting
\* for the cache lock after a replayed block). probe_arm # "none" while
\* handle_reorg executes.
InHandleReorg == probe_arm # "none"

\* run(): the reorg probe reads the cached hash under the cache lock, releases
\* it, and calls handle_reorg on a mismatch or after the walk of a failed fetch
HrBegin ==
  /\ pc = "pb_idle"
  /\ ~InHandleReorg
  /\ current_height > 0
  /\ tip <= current_height
  /\ cache_lock = "free"
  /\ GetBlockAtHeight(cache, current_height) # 0
  /\ LET got == GetBlockHash(current_height)
         walk == WalkTarget(current_height, TRUE)
     IN \/ /\ got.found
           /\ HexEncode(got.hash) # cache[GetBlockAtHeight(cache, current_height)].metadata.hash
           /\ new_height' = current_height - 1
           /\ probe_arm' = "mismatch"
        \/ /\ ~got.found
           /\ walk # -1
           /\ new_height' = walk
           /\ probe_arm' = "error"
  /\ pc' = "hr_lock_cache"
  /\ UNCHANGED <<upstream, now, config, control, inversion, host, adapter, guest, locks,
                 current_height, metashrew_height, actual_block_count, target_height,
                 height, error, cache, runtime, sent, sink_calls>>

\* let cache = self.cache.lock().await
HrLockCache ==
  /\ pc = "hr_lock_cache"
  /\ cache_lock = "free"
  /\ cache_lock' = "driver"
  /\ pc' = "hr_find"
  /\ UNCHANGED <<upstream, now, config, control, inversion, host, adapter, guest,
                 runtime_lock, transform_result, current_height, locals, error, cache,
                 runtime, sent, sink_calls>>

\* find_common_ancestor and get_state_snapshot, then drop(cache); an error
\* returns from handle_reorg, which drops the guard as well
HrFind ==
  /\ pc = "hr_find"
  /\ LET r == Unwind(new_height, TRUE, TRUE)
     IN IF r.error \in {"MetashrewClient", "ReorgHandling"}
        THEN /\ error' = r.error
             /\ pc' = "failed"
             /\ UNCHANGED height
        ELSE /\ height' = r.ancestor + 1
             /\ pc' = "hr_lock_runtime"
             /\ UNCHANGED error
  /\ cache_lock' = "free"
  /\ UNCHANGED <<upstream, now, config, control, inversion, host, adapter, guest,
                 runtime_lock, transform_result, current_height, metashrew_height,
                 actual_block_count, target_height, new_height, probe_arm, cache,
                 runtime, sent, sink_calls>>

\* let mut runtime = self.runtime.lock().await
HrLockRuntime ==
  /\ pc = "hr_lock_runtime"
  /\ runtime_lock = "free"
  /\ runtime_lock' = "driver"
  /\ pc' = "hr_unwind"
  /\ UNCHANGED <<upstream, now, config, control, inversion, host, adapter, guest,
                 cache_lock, transform_result, current_height, locals, error, cache,
                 runtime, sent, sink_calls>>

\* the inverses of current_height down to the ancestor, the reset of the
\* runtime and the send of the inverse batch; an error returns from
\* handle_reorg and drops the runtime guard
HrUnwind ==
  /\ pc = "hr_unwind"
  /\ \E sinkOk \in BOOLEAN :
       LET r == Unwind(new_height, TRUE, sinkOk)
       IN /\ rt_height' = r.rt_height
          /\ rt_state' = r.rt_state
          /\ sent' = r.sent
          /\ sink_calls' = SinkCallsAfter(r)
          /\ error' = r.error
          /\ IF r.res = "err"
             THEN pc' = "failed" /\ runtime_lock' = "free"
             ELSE pc' = "hr_relock_cache" /\ UNCHANGED runtime_lock
  /\ UNCHANGED <<upstream, now, config, control, inversion, host, adapter, guest,
                 cache_lock, transform_result, current_height, locals, cache, rt_hash,
                 cdc_cache>>

\* let mut cache = self.cache.lock().await; cache.rollback(common_ancestor)?;
\* drop(runtime)
HrRelockCache ==
  /\ pc = "hr_relock_cache"
  /\ cache_lock = "free"
  /\ cache_lock' = "driver"
  /\ cache' = Rollback(cache, height - 1)
  /\ runtime_lock' = "free"
  /\ pc' = "hr_loop"
  /\ UNCHANGED <<upstream, now, config, control, inversion, host, adapter, guest,
                 transform_result, current_height, locals, error, runtime, sent,
                 sink_calls>>

\* (variant: the replay loop calls process_block without dropping the cache
\* guard)
HrLoopKeepsCache ==
  /\ pc = "hr_loop"
  /\ IF height > new_height
     THEN /\ cache_lock' = "free"
          /\ probe_arm' = "none"
          /\ pc' = "pb_idle"
     ELSE /\ UNCHANGED <<cache_lock, probe_arm>>
          /\ pc' = IF GetBlockHash(height).found THEN "pb_lock_runtime" ELSE "hr_reacquire"
  /\ UNCHANGED <<upstream, now, config, control, inversion, host, adapter, guest,
                 runtime_lock, transform_result, current_height, metashrew_height,
                 actual_block_count, target_height, height, new_height, error, cache,
                 runtime, sent, sink_calls>>

\* the head of the replay loop: past new_height handle_reorg returns and the
\* cache guard is dropped; otherwise drop(cache) and process_block(height)
\* starts, which returns at once when the hash is not found
HrLoop ==
  /\ pc = "hr_loop"
  /\ cache_lock' = "free"
  /\ IF height > new_height
     THEN /\ probe_arm' = "none"
          /\ pc' = "pb_idle"
     ELSE /\ UNCHANGED probe_arm
          /\ pc' = IF GetBlockHash(height).found THEN "pb_lock_runtime" ELSE "hr_reacquire"
  /\ UNCHANGED <<upstream, now, config, control, inversion, host, adapter, guest,
                 runtime_lock, transform_result, current_height, metashrew_height,
                 actual_block_count, target_height, height, new_height, error, cache,
                 runtime, sent, sink_calls>>

\* sink.send and the return of a process_block called by the replay loop:
\* both guards are dropped, current_height is not assigned
HrReplaySend ==
  /\ pc = "pb_send"
  /\ InHandleReorg
  /\ sink_calls' = Append(sink_calls, "send")
  /\ runtime_lock' = "free"
  /\ cache_lock' = "free"
  /\ transform_result' = None
  /\ \E sinkOk \in BOOLEAN :
       IF sinkOk
       THEN /\ sent' = Append(sent, transform_result[1])
            /\ pc' = "hr_reacquire"
            /\ UNCHANGED error
       ELSE /\ error' = "Sink"
            /\ pc' = "failed"
            /\ UNCHANGED sent
  /\ UNCHANGED <<upstream, now, config, control, inversion, host, adapter, guest,
                 current_height, locals, cache, runtime>>

\* cache = self.cache.lock().await at the end of a turn of the replay loop
HrReacquire ==
  /\ pc = "hr_reacquire"
  /\ cache_lock = "free"
  /\ cache_lock' = "driver"
  /\ height' = height + 1
  /\ pc' = "hr_loop"
  /\ UNCHANGED <<upstream, now, config, control, inversion, host, adapter, guest,
                 runtime_lock, transform_result, current_height, metashrew_height,
                 actual_block_count, target_height, new_height, probe_arm, error, cache,
                 runtime, sent, sink_calls>>

\* sink.send and the return of a process_block called by run()
RunSend == ~InHandleReorg /\ PbSend

DriverNext ==
  \/ PbBegin
  \/ PbLockRuntime
  \/ PbTransform
  \/ PbLockCache
  \/ PbAdd
  \/ RunSend
  \/ HrBegin
  \/ HrLockCache
  \/ HrFind
  \/ HrLockRuntime
  \/ HrUnwind
  \/ HrRelockCache
  \/ HrLoop
  \/ HrReplaySend
  \/ HrReacquire
  \/ UpstreamReorg

DriverSpec == LockInit /\ [][DriverNext]_vars

\* the driver is waiting for the runtime lock, for the cache lock
WaitsForRuntime == pc \in {"pb_lock_runtime", "hr_lock_runtime"}
WaitsForCache == pc \in {"pb_lock_cache", "hr_lock_cache", "hr_relock_cache", "hr_reacquire"}

\* C37: the driver never waits for a lock it already holds and takes the
\* runtime lock before the cache lock when it holds both, in process_block and
\* in handle_reorg including its replay loop: it never waits for the runtime
\* lock while it holds either lock, nor for the cache lock while it holds it.
C37_DriverCannotSelfDeadlock ==
  /\ WaitsForRuntime => (runtime_lock # "driver" /\ cache_lock # "driver")
  /\ WaitsForCache => cache_lock # "driver"

\* process_block, called by the replay loop of handle_reorg, holds the
\* runtime lock and waits for the cache lock
C37_Witness ==
  /\ InHandleReorg
  /\ pc = "pb_lock_cache"
  /\ runtime_lock = "driver"

====
